---- MODULE Spec2Model ----
(***************************************************************************)
(* Commission reconciliation: ReconciliationEngineV3 (which extends         *)
(* ReconciliationEngineV2) and CommissionConfig.                            *)
(*                                                                          *)
(* Deals and transactions are the dict rows the parsers produce.  A row is  *)
(* identified by its position in the list given to the constructor, as      *)
(* Python identifies it by object identity: every list of transactions in   *)
(* the model is a sequence of positions in `transactions`, every reference  *)
(* to a deal a position in `hubspot_deals`.                                 *)
(*                                                                          *)
(* Amounts are whole currency units and rates are per-mille integers, so    *)
(* that amount * rate is exact; fractions are kept as [num, den] records.   *)
(* The code computes in binary floating point: the rows are chosen so that  *)
(* none of its comparisons is decided by rounding.                          *)
(***************************************************************************)
EXTENDS Integers, Sequences, FiniteSets, TLC

----------------------------------------------------------------------------
(* Python str: a string is compared as a whole with =, and read character  *)
(* by character (lower(), `in`, regular expressions) through Chars.         *)

Chars(s) ==
    CASE s = "" -> <<>>
      [] s = "Deal A" -> <<"D", "e", "a", "l", " ", "A">>
      [] s = "Deal B" -> <<"D", "e", "a", "l", " ", "B">>
      [] s = "Deal A..." -> <<"D", "e", "a", "l", " ", "A", ".", ".", ".">>
      [] s = "Deal A[U+2026]" -> <<"D", "e", "a", "l", " ", "A", "U+2026">>
      [] s = "[U+2026]" -> <<"U+2026">>
      [] s = "CPI Increase A" -> <<"C", "P", "I", " ", "I", "n", "c", "r", "e", "a", "s", "e", " ", "A">>
      [] s = "Fixed Price Increase A" -> <<"F", "i", "x", "e", "d", " ", "P", "r", "i", "c", "e", " ", "I", "n", "c", "r", "e", "a", "s", "e", " ", "A">>
      [] s = "Fix Increase A" -> <<"F", "i", "x", " ", "I", "n", "c", "r", "e", "a", "s", "e", " ", "A">>
      [] s = "FP Increase A" -> <<"F", "P", " ", "I", "n", "c", "r", "e", "a", "s", "e", " ", "A">>
      [] s = "Indexation A" -> <<"I", "n", "d", "e", "x", "a", "t", "i", "o", "n", " ", "A">>
      [] s = "Acme GmbH" -> <<"A", "c", "m", "e", " ", "G", "m", "b", "H">>
      [] s = "ACME AG" -> <<"A", "C", "M", "E", " ", "A", "G">>
      [] s = "Acme (EU)" -> <<"A", "c", "m", "e", " ", "(", "E", "U", ")">>
      [] s = "Beta & Co. KG" -> <<"B", "e", "t", "a", " ", "&", " ", "C", "o", ".", " ", "K", "G">>
      [] s = "Sage" -> <<"S", "a", "g", "e">>
      [] s = "Nordea Bank Abp" -> <<"N", "o", "r", "d", "e", "a", " ", "B", "a", "n", "k", " ", "A", "b", "p">>
      [] s = "cpi increase" -> <<"c", "p", "i", " ", "i", "n", "c", "r", "e", "a", "s", "e">>
      [] s = "fix increase" -> <<"f", "i", "x", " ", "i", "n", "c", "r", "e", "a", "s", "e">>
      [] s = "indexation" -> <<"i", "n", "d", "e", "x", "a", "t", "i", "o", "n">>
      [] s = "fp increase" -> <<"f", "p", " ", "i", "n", "c", "r", "e", "a", "s", "e">>
      [] s = "fixed price increase" -> <<"f", "i", "x", "e", "d", " ", "p", "r", "i", "c", "e", " ", "i", "n", "c", "r", "e", "a", "s", "e">>
      [] s = "software" -> <<"s", "o", "f", "t", "w", "a", "r", "e">>
      [] s = "managed_services_public" -> <<"m", "a", "n", "a", "g", "e", "d", "_", "s", "e", "r", "v", "i", "c", "e", "s", "_", "p", "u", "b", "l", "i", "c">>
      [] s = "managed_services_private" -> <<"m", "a", "n", "a", "g", "e", "d", "_", "s", "e", "r", "v", "i", "c", "e", "s", "_", "p", "r", "i", "v", "a", "t", "e">>
      [] s = "recurring_professional_services" -> <<"r", "e", "c", "u", "r", "r", "i", "n", "g", "_", "p", "r", "o", "f", "e", "s", "s", "i", "o", "n", "a", "l", "_", "s", "e", "r", "v", "i", "c", "e", "s">>
      [] s = "indexations_parameter" -> <<"i", "n", "d", "e", "x", "a", "t", "i", "o", "n", "s", "_", "p", "a", "r", "a", "m", "e", "t", "e", "r">>
      [] s = "churn" -> <<"c", "h", "u", "r", "n">>
      [] s = "sw" -> <<"s", "w">>
      [] s = "managed services" -> <<"m", "a", "n", "a", "g", "e", "d", " ", "s", "e", "r", "v", "i", "c", "e", "s">>
      [] s = "managed software" -> <<"m", "a", "n", "a", "g", "e", "d", " ", "s", "o", "f", "t", "w", "a", "r", "e">>
      [] s = "ms" -> <<"m", "s">>
      [] s = "professional services" -> <<"p", "r", "o", "f", "e", "s", "s", "i", "o", "n", "a", "l", " ", "s", "e", "r", "v", "i", "c", "e", "s">>
      [] s = "ps" -> <<"p", "s">>
      [] s = "abp" -> <<"a", "b", "p">>
      [] s = "indexations" -> <<"i", "n", "d", "e", "x", "a", "t", "i", "o", "n", "s">>
      [] s = "parameter" -> <<"p", "a", "r", "a", "m", "e", "t", "e", "r">>
      [] s = "balance sheet" -> <<"b", "a", "l", "a", "n", "c", "e", " ", "s", "h", "e", "e", "t">>
      [] s = "managed" -> <<"m", "a", "n", "a", "g", "e", "d">>
      [] s = "public" -> <<"p", "u", "b", "l", "i", "c">>
      [] s = "rcloud" -> <<"r", "c", "l", "o", "u", "d">>
      [] s = "Indexation Parameter" -> <<"I", "n", "d", "e", "x", "a", "t", "i", "o", "n", " ", "P", "a", "r", "a", "m", "e", "t", "e", "r">>
      [] s = "Managed Services Public" -> <<"M", "a", "n", "a", "g", "e", "d", " ", "S", "e", "r", "v", "i", "c", "e", "s", " ", "P", "u", "b", "l", "i", "c">>
      [] s = "Managed Cloud" -> <<"M", "a", "n", "a", "g", "e", "d", " ", "C", "l", "o", "u", "d">>
      [] s = "Managed Services" -> <<"M", "a", "n", "a", "g", "e", "d", " ", "S", "e", "r", "v", "i", "c", "e", "s">>
      [] s = "Professional Services" -> <<"P", "r", "o", "f", "e", "s", "s", "i", "o", "n", "a", "l", " ", "S", "e", "r", "v", "i", "c", "e", "s">>
      [] s = "Public Cloud" -> <<"P", "u", "b", "l", "i", "c", " ", "C", "l", "o", "u", "d">>
      [] s = "rCloud" -> <<"r", "C", "l", "o", "u", "d">>
      [] s = "gmbh" -> <<"g", "m", "b", "h">>
      [] s = "ag" -> <<"a", "g">>
      [] s = "bank" -> <<"b", "a", "n", "k">>
      [] s = "aktiengesellschaft" -> <<"a", "k", "t", "i", "e", "n", "g", "e", "s", "e", "l", "l", "s", "c", "h", "a", "f", "t">>
      [] s = "oyj" -> <<"o", "y", "j">>
      [] s = "inc." -> <<"i", "n", "c", ".">>
      [] s = "inc" -> <<"i", "n", "c">>
      [] s = "ltd" -> <<"l", "t", "d">>
      [] s = "limited" -> <<"l", "i", "m", "i", "t", "e", "d">>
      [] s = "plc" -> <<"p", "l", "c">>
      [] s = "s.a." -> <<"s", ".", "a", ".">>
      [] s = "sa" -> <<"s", "a">>
      [] s = "kommanditgesellschaft" -> <<"k", "o", "m", "m", "a", "n", "d", "i", "t", "g", "e", "s", "e", "l", "l", "s", "c", "h", "a", "f", "t">>
      [] s = "co" -> <<"c", "o">>

UpperLetters == <<"A", "B", "C", "D", "E", "F", "G", "H", "I", "J", "K", "L", "M", "N", "O", "P", "Q", "R", "S", "T", "U", "V", "W", "X", "Y", "Z">>
LowerLetters == <<"a", "b", "c", "d", "e", "f", "g", "h", "i", "j", "k", "l", "m", "n", "o", "p", "q", "r", "s", "t", "u", "v", "w", "x", "y", "z">>

LowerChar(c) ==
    IF \E i \in 1..Len(UpperLetters) : UpperLetters[i] = c
    THEN LowerLetters[CHOOSE i \in 1..Len(UpperLetters) : UpperLetters[i] = c]
    ELSE c

\* str.lower()
Lower(cs) == [i \in 1..Len(cs) |-> LowerChar(cs[i])]

OccursAt(hay, needle, q) ==
    /\ q >= 1
    /\ q + Len(needle) - 1 <= Len(hay)
    /\ \A j \in 1..Len(needle) : hay[q + j - 1] = needle[j]

\* needle in hay
Contains(hay, needle) ==
    \E q \in 1..(Len(hay) - Len(needle) + 1) : OccursAt(hay, needle, q)

\* any(k in hay for k in keywords), the keywords given as strings
ContainsAny(hay, keywords) == \E k \in keywords : Contains(hay, Chars(k))

Abs(x) == IF x < 0 THEN -x ELSE x

----------------------------------------------------------------------------
(* datetime: year, month, day and hour of day.  None is NoDate.            *)

NoDate == [y |-> 0, m |-> 0, d |-> 0, h |-> 0]

Date(y, m, d, h) == [y |-> y, m |-> m, d |-> d, h |-> h]

IsLeap(y) == (y % 4 = 0 /\ y % 100 # 0) \/ y % 400 = 0

DaysBeforeYear(y) ==
    365 * (y - 1) + ((y - 1) \div 4) - ((y - 1) \div 100) + ((y - 1) \div 400)

DaysBeforeMonth(y, m) ==
    <<0, 31, 59, 90, 120, 151, 181, 212, 243, 273, 304, 334>>[m]
        + (IF m > 2 /\ IsLeap(y) THEN 1 ELSE 0)

Ordinal(dt) == DaysBeforeYear(dt.y) + DaysBeforeMonth(dt.y, dt.m) + dt.d

\* (a - b).days: timedelta normalises to days + a non-negative remainder,
\* so the day count is the floor of the difference.
TimedeltaDays(a, b) ==
    ((Ordinal(a) - Ordinal(b)) * 24 + (a.h - b.h)) \div 24

----------------------------------------------------------------------------
(* CommissionConfig.  A rate is an integer number of thousandths            *)
(* (0.073 is 73); a fraction is a record [num, den] with den > 0.           *)

Frac(n, d) == [num |-> n, den |-> d]

FracEq(a, b) == a.num * b.den = b.num * a.den

FracAbsDiff(a, b) == Frac(Abs(a.num * b.den - b.num * a.den), a.den * b.den)

\* a > n for an integer n
FracGreater(a, n) == a.num > n * a.den

PlanYears == {2023, 2024, 2025}

PlanCategories ==
    {"software", "managed_services_public", "managed_services_private",
     "recurring_professional_services", "indexations_parameter", "churn"}

\* PLANS[year].commission_rates
CommissionRates(year) ==
    CASE year = 2023 ->
           [c \in PlanCategories |->
              CASE c = "software" -> 73
                [] c = "managed_services_public" -> 59
                [] c = "managed_services_private" -> 44
                [] c = "recurring_professional_services" -> 29
                [] c = "indexations_parameter" -> 44
                [] c = "churn" -> 44]
      [] year = 2024 ->
           [c \in PlanCategories |->
              CASE c = "software" -> 73
                [] c = "managed_services_public" -> 59
                [] c = "managed_services_private" -> 73
                [] c = "recurring_professional_services" -> 29
                [] c = "indexations_parameter" -> 88
                [] c = "churn" -> 44]
      [] year = 2025 ->
           [c \in PlanCategories |->
              CASE c = "software" -> 70
                [] c = "managed_services_public" -> 74
                [] c = "managed_services_private" -> 84
                [] c = "recurring_professional_services" -> 31
                [] c = "indexations_parameter" -> 93
                [] c = "churn" -> 44]

\* PLANS[year].quota_target
QuotaTarget(year) == IF year = 2025 THEN 1700000 ELSE 1500000

\* CommissionPlan.ps_flat_rate, in thousandths
PsFlatRate == 10

\* DEAL_TYPE_MAPPING, in dict order
DEAL_TYPE_MAPPING ==
    << [category |-> "software", keywords |-> {"software", "sw"}],
       [category |-> "managed_services",
        keywords |-> {"managed services", "managed software", "ms"}],
       [category |-> "professional_services",
        keywords |-> {"professional services", "ps", "abp"}],
       [category |-> "indexations",
        keywords |-> {"indexations", "parameter", "balance sheet"}],
       [category |-> "churn", keywords |-> {"churn"}] >>

\* a deal type without keyword taken as churn
NormalizeDealTypeToChurn(deal_type) ==
    LET lower == Lower(Chars(deal_type))
        hits == {i \in 1..Len(DEAL_TYPE_MAPPING) :
                    ContainsAny(lower, DEAL_TYPE_MAPPING[i].keywords)}
    IN  IF hits = {} THEN "churn"
        ELSE LET first == CHOOSE i \in hits : \A j \in hits : i <= j
                 category == DEAL_TYPE_MAPPING[first].category
             IN  CASE category = "managed_services" ->
                        IF ContainsAny(lower, {"public", "rcloud"})
                        THEN "managed_services_public"
                        ELSE "managed_services_private"
                   [] category = "professional_services" ->
                        "recurring_professional_services"
                   [] category = "indexations" -> "indexations_parameter"
                   [] OTHER -> category

\* CommissionConfig._normalize_deal_type
NormalizeDealType(deal_type) ==
    LET lower == Lower(Chars(deal_type))
        hits == {i \in 1..Len(DEAL_TYPE_MAPPING) :
                    ContainsAny(lower, DEAL_TYPE_MAPPING[i].keywords)}
    IN  IF hits = {} THEN "software"
        ELSE LET first == CHOOSE i \in hits : \A j \in hits : i <= j
                 category == DEAL_TYPE_MAPPING[first].category
             IN  CASE category = "managed_services" ->
                        IF ContainsAny(lower, {"public", "rcloud"})
                        THEN "managed_services_public"
                        ELSE "managed_services_private"
                   [] category = "professional_services" ->
                        "recurring_professional_services"
                   [] category = "indexations" -> "indexations_parameter"
                   [] OTHER -> category

\* the flat rate returned without a look at the plans
GetCommissionRateFlatFirst(year, deal_type, is_ps) ==
    IF is_ps THEN [raised |-> FALSE, rate |-> PsFlatRate]
    ELSE IF year \notin PlanYears THEN [raised |-> TRUE, rate |-> 0]
    ELSE LET normalized_type == NormalizeDealType(deal_type)
         IN  [raised |-> FALSE,
              rate |-> IF normalized_type \in PlanCategories
                       THEN CommissionRates(year)[normalized_type]
                       ELSE 0]

\* CommissionConfig.get_commission_rate: [raised, rate]; raised stands for
\* the KeyError (is_ps) or ValueError of a year without a plan.
GetCommissionRate(year, deal_type, is_ps) ==
    IF year \notin PlanYears THEN [raised |-> TRUE, rate |-> 0]
    ELSE IF is_ps THEN [raised |-> FALSE, rate |-> PsFlatRate]
    ELSE LET normalized_type == NormalizeDealType(deal_type)
         IN  [raised |-> FALSE,
              rate |-> IF normalized_type \in PlanCategories
                       THEN CommissionRates(year)[normalized_type]
                       ELSE 0]

\* CommissionConfig.get_quarter_from_date: "Qn_year" as <<n, year>>
GetQuarterFromDate(dt) ==
    << (IF dt.m <= 3 THEN 1 ELSE IF dt.m <= 6 THEN 2
        ELSE IF dt.m <= 9 THEN 3 ELSE 4), dt.y >>

\* QUARTER_SPLIT, in hundredths
QUARTER_SPLIT == [close_quarter |-> 50, service_start_quarter |-> 50]

\* the quarters compared by their number, whatever their year
CalculateSplitQuartersByNumber(close_date, service_start_date) ==
    LET close_quarter == GetQuarterFromDate(close_date)
        service_quarter == IF service_start_date # NoDate
                           THEN GetQuarterFromDate(service_start_date)
                           ELSE close_quarter
    IN  IF close_quarter[1] = service_quarter[1]
        THEN [q \in {close_quarter} |-> 100]
        ELSE [q \in {close_quarter, service_quarter} |->
                 IF q = service_quarter THEN QUARTER_SPLIT.service_start_quarter
                 ELSE QUARTER_SPLIT.close_quarter]

\* CommissionConfig.calculate_split_quarters: the dict it returns, as a
\* function from quarters to shares in hundredths (1.0 is 100); of two equal
\* keys of a dict display the later one stays
CalculateSplitQuarters(close_date, service_start_date) ==
    LET close_quarter == GetQuarterFromDate(close_date)
        service_quarter == IF service_start_date # NoDate
                           THEN GetQuarterFromDate(service_start_date)
                           ELSE close_quarter
    IN  IF close_quarter = service_quarter
        THEN [q \in {close_quarter} |-> 100]
        ELSE [q \in {close_quarter, service_quarter} |->
                 IF q = service_quarter THEN QUARTER_SPLIT.service_start_quarter
                 ELSE QUARTER_SPLIT.close_quarter]

----------------------------------------------------------------------------
(* ReconciliationEngineV2._normalize_company, on characters.                *)

IsSpace(c) == c = " "

Digits == {"0", "1", "2", "3", "4", "5", "6", "7", "8", "9"}

\* \w
IsWordChar(c) ==
    \/ \E i \in 1..Len(LowerLetters) : LowerLetters[i] = c \/ UpperLetters[i] = c
    \/ c \in Digits
    \/ c = "_"

\* str.strip()
Strip(cs) ==
    LET keep == {i \in 1..Len(cs) : ~IsSpace(cs[i])}
    IN  IF keep = {} THEN <<>>
        ELSE SubSeq(cs, CHOOSE i \in keep : \A j \in keep : i <= j,
                        CHOOSE i \in keep : \A j \in keep : i >= j)

\* re.sub(r'\s*X.*$', '', cs) where X first occurs at q: the match starts at
\* the whitespace run that ends right before q and runs to the end.
CutBefore(cs, q) ==
    LET w == CHOOSE p \in 1..q :
                /\ \A i \in p..(q - 1) : IsSpace(cs[i])
                /\ \A r \in 1..(p - 1) : \E i \in r..(q - 1) : ~IsSpace(cs[i])
    IN  SubSeq(cs, 1, w - 1)

CutAtLeftmost(cs, S) ==
    IF S = {} THEN cs ELSE CutBefore(cs, CHOOSE q \in S : \A r \in S : q <= r)

LegalSuffixes ==
    {"gmbh", "ag", "bank", "aktiengesellschaft", "abp", "oyj", "inc.", "inc",
     "ltd", "limited", "plc", "s.a.", "sa"}

\* r'\s*\(.*\)$'
StripParenthetical(cs) ==
    CutAtLeftmost(cs, {q \in 1..(Len(cs) - 1) : cs[q] = "(" /\ cs[Len(cs)] = ")"})

\* r'\s*(gmbh|ag|bank|...|sa).*$': no word boundary is asked for
StripLegalSuffix(cs) ==
    CutAtLeftmost(cs, {q \in 1..Len(cs) :
                          \E k \in LegalSuffixes : OccursAt(cs, Chars(k), q)})

\* r'\s*&\s*co\.?.*$'
StripAndCo(cs) ==
    CutAtLeftmost(cs, {q \in 1..Len(cs) :
        /\ cs[q] = "&"
        /\ \E r \in (q + 1)..Len(cs) :
              /\ \A i \in (q + 1)..(r - 1) : IsSpace(cs[i])
              /\ OccursAt(cs, Chars("co"), r)})

\* r'\s*kommanditgesellschaft.*$'
StripKommanditgesellschaft(cs) ==
    CutAtLeftmost(cs, {q \in 1..Len(cs) :
                          OccursAt(cs, Chars("kommanditgesellschaft"), q)})

\* re.sub(r'[^\w\s]', ' ', cs)
ReplaceSpecial(cs) ==
    [i \in 1..Len(cs) |-> IF IsWordChar(cs[i]) \/ IsSpace(cs[i]) THEN cs[i] ELSE " "]

RECURSIVE CollapseFrom(_, _)
\* ' '.join(cs.split()), for a stripped cs, from position i on
CollapseFrom(cs, i) ==
    IF i > Len(cs) THEN <<>>
    ELSE IF IsSpace(cs[i]) /\ i > 1 /\ IsSpace(cs[i - 1]) THEN CollapseFrom(cs, i + 1)
    ELSE <<cs[i]>> \o CollapseFrom(cs, i + 1)

NormalizeCompany(company_name) ==
    IF company_name = "" THEN <<>>
    ELSE LET name0 == Strip(Lower(Chars(company_name)))
             name1 == StripParenthetical(name0)
             name2 == StripLegalSuffix(name1)
             name3 == StripAndCo(name2)
             name4 == StripKommanditgesellschaft(name3)
         IN  CollapseFrom(Strip(ReplaceSpecial(name4)), 1)

----------------------------------------------------------------------------
(* Rows.  A deal is the dict HubSpotParser._process_deal builds, a          *)
(* transaction the dict SalesCookieParserV2 builds; only the keys the       *)
(* engine reads are kept.                                                   *)

Deal(id, name, date, company, amount) ==
    [hubspot_id |-> id, deal_name |-> name, close_date |-> date,
     company |-> company, commission_amount |-> amount,
     is_ps_deal |-> FALSE, product_name |-> "", types_of_acv |-> "",
     deployment_type |-> "", is_centrally_processed |-> FALSE]

Tx(id, name, date, company, type) ==
    [salescookie_id |-> id, deal_name |-> name, close_date |-> date,
     revenue_start_date |-> NoDate, company_name |-> company,
     transaction_type |-> type, commission_amount |-> 0,
     commission_rate |-> 0, acv_eur |-> 0, has_split |-> FALSE,
     est_commission |-> 0, early_bird_kicker |-> 0,
     performance_kicker |-> 0, campaign_kicker |-> 0]

\* tx with its amounts: paid commission, rate (thousandths), ACV, full amount
WithAmounts(tx, paid, rate, acv, est) ==
    [tx EXCEPT !.commission_amount = paid, !.commission_rate = rate,
               !.acv_eur = acv, !.est_commission = est]

----------------------------------------------------------------------------
(* Sequence helpers                                                         *)

RECURSIVE SeqSum(_)
SeqSum(s) == IF s = <<>> THEN 0 ELSE Head(s) + SeqSum(Tail(s))

Range(s) == {s[i] : i \in DOMAIN s}

Min(S) == CHOOSE x \in S : \A y \in S : x <= y

----------------------------------------------------------------------------
(* The engine                                                               *)

VARIABLES
    hubspot_deals,                    \* constructor argument
    transactions,                     \* constructor argument
    salescookie_transactions,         \* self.salescookie_transactions
    regular_transactions,
    withholding_transactions,
    forecast_transactions,
    split_transactions,
    centrally_processed_transactions,
    matches,                          \* self.matches
    discrepancies,                    \* self.discrepancies
    split_transactions_unmatched,
    forecast_summary,
    result,                           \* what reconcile returned last
    first_result,                     \* what the first reconcile returned
    runs,                             \* reconcile calls begun so far
    clock_year,                       \* datetime.now().year as last read
    pc,
    call,                             \* a call of a CommissionConfig or
                                      \* KickerCalculator method, with its arguments
    ret                               \* what the call returned or raised

vars == <<hubspot_deals, transactions, salescookie_transactions,
          regular_transactions, withholding_transactions,
          forecast_transactions, split_transactions,
          centrally_processed_transactions, matches, discrepancies,
          split_transactions_unmatched, forecast_summary, result,
          first_result, runs, clock_year, pc, call, ret>>

inputs == <<hubspot_deals, transactions>>

\* the call of a method of the configuration, which no stage of reconcile
\* touches
config_call == <<call, ret>>

NoCall == [fn |-> ""]

NoReturn == [returned |-> FALSE]

\* dict.get('transaction_type', 'regular') of the row at position t
TxType(txs, t) == txs[t].transaction_type

\* ReconciliationEngineV3._categorize_transactions
Categorize(txs, type) ==
    LET all == [i \in 1..Len(txs) |-> i]
        known == {"withholding", "forecast", "split"}
        Is(t) == IF type = "regular" THEN TxType(txs, t) \notin known
                 ELSE TxType(txs, t) = type
    IN  SelectSeq(all, Is)

\* {m.hubspot_id for m in self.matches}
MatchedHsIds(ms) == {ms[i].hubspot_id : i \in DOMAIN ms}

\* {sc.get('salescookie_id') for m in self.matches for sc in m.salescookie_transactions}
MatchedScIds(ms, txs) ==
    {txs[t].salescookie_id :
        t \in UNION {Range(ms[i].salescookie_transactions) : i \in DOMAIN ms}}

\* MatchResult(...); list_id names the list object salescookie_transactions
\* refers to: matches with one list_id share one list.
MatchResult(hs_id, sc_id, type, confidence, deal, txlist, list_id) ==
    [hubspot_id |-> hs_id, salescookie_id |-> sc_id, match_type |-> type,
     confidence |-> confidence, hubspot_deal |-> deal,
     salescookie_transactions |-> txlist, list_id |-> list_id]

\* the list of the match is replaced by the row
ReplaceRowsOfMatch(ms, i, t) ==
    [j \in DOMAIN ms |->
        IF ms[j].list_id = ms[i].list_id
        THEN [ms[j] EXCEPT !.salescookie_transactions = <<t>>]
        ELSE ms[j]]

\* match.salescookie_transactions.append(t): every match holding that list
\* sees the appended row
AppendToMatch(ms, i, t) ==
    [j \in DOMAIN ms |->
        IF ms[j].list_id = ms[i].list_id
        THEN [ms[j] EXCEPT !.salescookie_transactions = Append(@, t)]
        ELSE ms[j]]

\* Discrepancy(...): expected_value and actual_value are kept as the amounts
\* they print (0 where the text is fixed), details as the set of the optional
\* remarks it holds
Discrepancy(deal_id, deal_name, type, expected, actual, impact, severity, details, confidence) ==
    [deal_id |-> deal_id, deal_name |-> deal_name, discrepancy_type |-> type,
     expected_value |-> expected, actual_value |-> actual,
     impact_eur |-> impact, severity |-> severity, details |-> details,
     match_confidence |-> confidence]

\* ReconciliationEngineV2._identify_centrally_processed_transactions: the test
\* of one row
CentralIndicators == {"cpi increase", "fix increase", "indexation"}

IsCentrallyProcessed(tx) ==
    ContainsAny(Lower(Chars(tx.deal_name)), CentralIndicators)

\* ReconciliationEngineV3._dates_match
DatesMatch(date1, date2, tolerance_days) ==
    IF date1 = NoDate \/ date2 = NoDate THEN FALSE
    ELSE Abs(TimedeltaDays(date1, date2)) <= tolerance_days

----------------------------------------------------------------------------
(* Matching stages: each operator is one method, taking and returning the   *)
(* attributes it reads and writes.                                          *)

RECURSIVE MatchByIdFrom(_, _, _, _, _, _)
\* the loop over self.hubspot_deals of _match_by_id, from deal d on; the
\* matches appended since position base share sc_by_id's lists
MatchByIdFrom(ms, deals, txs, pool, d, base) ==
    IF d > Len(deals) THEN ms
    ELSE LET hs_id == deals[d].hubspot_id
             HasId(t) == txs[t].salescookie_id = hs_id
             group == SelectSeq(pool, HasId)
             sharing == {j \in (base + 1)..Len(ms) : ms[j].hubspot_id = hs_id}
             list_id == IF sharing = {} THEN Len(ms) + 1
                        ELSE ms[Min(sharing)].list_id
         IN  IF hs_id # "" /\ group # <<>>
             THEN MatchByIdFrom(
                      Append(ms, MatchResult(hs_id, hs_id, "id", 100, d,
                                             group, list_id)),
                      deals, txs, pool, d + 1, base)
             ELSE MatchByIdFrom(ms, deals, txs, pool, d + 1, base)

\* the same loop begun one deal late
MatchByIdFromSecondDeal(ms, deals, txs, pool) ==
    MatchByIdFrom(ms, deals, txs, pool, 2, Len(ms))

\* ReconciliationEngineV2._match_by_id
MatchById(ms, deals, txs, pool) == MatchByIdFrom(ms, deals, txs, pool, 1, Len(ms))

\* no deal is skipped
DealNeverSkipped(ms, hs) == FALSE

\* the deal is skipped by `if hs_deal['hubspot_id'] in matched_hs_ids: continue`
DealAlreadyMatched(ms, hs) == hs.hubspot_id \in MatchedHsIds(ms)

\* the row is skipped by `if sc_deal.get('salescookie_id') in matched_sc_ids: continue`
TxAlreadyMatched(ms, txs, sc) == sc.salescookie_id \in MatchedScIds(ms, txs)

\* confidence=95.0 of _match_by_name_and_date
NameDateConfidence == 95

RECURSIVE MatchByNameAndDateFrom(_, _, _, _, _)
MatchByNameAndDateFrom(ms, deals, txs, pool, d) ==
    IF d > Len(deals) THEN ms
    ELSE LET hs == deals[d]
             Qualifies(k) ==
                 LET sc == txs[pool[k]]
                 IN  /\ ~TxAlreadyMatched(ms, txs, sc)
                     /\ hs.deal_name = sc.deal_name
                     /\ sc.close_date # NoDate
                     /\ Abs(TimedeltaDays(hs.close_date, sc.close_date)) <= 1
             found == IF DealAlreadyMatched(ms, hs) \/ hs.deal_name = ""
                         \/ hs.close_date = NoDate
                      THEN {}
                      ELSE {k \in 1..Len(pool) : Qualifies(k)}
         IN  IF found = {} THEN MatchByNameAndDateFrom(ms, deals, txs, pool, d + 1)
             ELSE LET t == pool[Min(found)]
                  IN  MatchByNameAndDateFrom(
                          Append(ms, MatchResult(hs.hubspot_id,
                                                 txs[t].salescookie_id,
                                                 "name_date", NameDateConfidence,
                                                 d, <<t>>,
                                                 Len(ms) + 1)),
                          deals, txs, pool, d + 1)

\* ReconciliationEngineV2._match_by_name_and_date
MatchByNameAndDate(ms, deals, txs, pool) ==
    MatchByNameAndDateFrom(ms, deals, txs, pool, 1)

\* the companies of the rows, normalised once
Companies == {"", "Acme GmbH", "ACME AG", "Acme (EU)", "Beta & Co. KG", "Sage",
              "Nordea Bank Abp"}

NormalizedCompany == [c \in Companies |-> NormalizeCompany(c)]

\* the same with the bonus for amounts a hundredth apart
CompanyDateConfidenceWithinOnePercent(hs, sc) ==
    LET date_diff == Abs(TimedeltaDays(hs.close_date, sc.close_date))
        hs_amount == hs.commission_amount
        sc_acv == sc.acv_eur
    IN  80 - (date_diff * 5)
           + (IF sc_acv > 0 /\ 100 * Abs(hs_amount - sc_acv) < sc_acv
              THEN 10 ELSE 0)

\* the confidence _match_by_company_and_date gives a candidate
CompanyDateConfidence(hs, sc) ==
    LET date_diff == Abs(TimedeltaDays(hs.close_date, sc.close_date))
        hs_amount == hs.commission_amount
        sc_acv == sc.acv_eur
    IN  80 - (date_diff * 5)
           + (IF sc_acv > 0 /\ 10 * Abs(hs_amount - sc_acv) < sc_acv
              THEN 10 ELSE 0)

\* the last of the largest
BestMatchLast(cands, conf) ==
    CHOOSE k \in cands :
        /\ \A j \in cands : conf[k] >= conf[j]
        /\ \A j \in cands : conf[j] = conf[k] => j <= k

\* max(potential_matches, key=lambda x: x[1]): the first of the largest
BestMatch(cands, conf) ==
    Min({k \in cands : \A j \in cands : conf[k] >= conf[j]})

RECURSIVE MatchByCompanyAndDateFrom(_, _, _, _, _)
MatchByCompanyAndDateFrom(ms, deals, txs, pool, d) ==
    IF d > Len(deals) THEN ms
    ELSE LET hs == deals[d]
             hs_company == NormalizedCompany[hs.company]
             Qualifies(k) ==
                 LET sc == txs[pool[k]]
                 IN  /\ ~TxAlreadyMatched(ms, txs, sc)
                     /\ hs_company = NormalizedCompany[sc.company_name]
                     /\ sc.close_date # NoDate
                     /\ Abs(TimedeltaDays(hs.close_date, sc.close_date)) <= 7
             potential_matches ==
                 IF DealAlreadyMatched(ms, hs) \/ hs_company = <<>>
                    \/ hs.close_date = NoDate
                 THEN {}
                 ELSE {k \in 1..Len(pool) : Qualifies(k)}
             conf == [k \in potential_matches |->
                         CompanyDateConfidence(hs, txs[pool[k]])]
         IN  IF potential_matches = {}
             THEN MatchByCompanyAndDateFrom(ms, deals, txs, pool, d + 1)
             ELSE LET k == BestMatch(potential_matches, conf)
                      t == pool[k]
                  IN  MatchByCompanyAndDateFrom(
                          Append(ms, MatchResult(hs.hubspot_id,
                                                 txs[t].salescookie_id,
                                                 "company_date", conf[k], d,
                                                 <<t>>, Len(ms) + 1)),
                          deals, txs, pool, d + 1)

\* ReconciliationEngineV2._match_by_company_and_date
MatchByCompanyAndDate(ms, deals, txs, pool) ==
    MatchByCompanyAndDateFrom(ms, deals, txs, pool, 1)

\* the test of one withholding row against one matched deal
WithholdingBelongs(wh, hs) ==
    \/ wh.salescookie_id = hs.hubspot_id
    \/ /\ wh.deal_name = hs.deal_name
       /\ DatesMatch(wh.close_date, hs.close_date, 1)

RECURSIVE MatchWithholdingsFrom(_, _, _, _, _, _)
\* the loop over self.matches of _match_withholdings, from match i on;
\* returns the matches and the discrepancies
MatchWithholdingsFrom(ms, discs, deals, txs, whs, i) ==
    IF i > Len(ms) THEN [matches |-> ms, discrepancies |-> discs]
    ELSE LET hs == deals[ms[i].hubspot_deal]
             hits == IF hs.is_centrally_processed THEN {}
                     ELSE {k \in 1..Len(whs) : WithholdingBelongs(txs[whs[k]], hs)}
         IN  IF hits = {}
             THEN MatchWithholdingsFrom(ms, discs, deals, txs, whs, i + 1)
             ELSE LET w == whs[Min(hits)]
                      ms2 == AppendToMatch(ms, i, w)
                      first == txs[ms2[i].salescookie_transactions[1]]
                      expected_withholding == first.commission_amount * 2
                      est_commission == txs[w].est_commission
                      diff == Abs(expected_withholding - est_commission)
                      \* amounts are whole units: more than 0.01 apart is apart
                      discs2 ==
                          IF diff > 0
                          THEN Append(discs,
                                   Discrepancy(hs.hubspot_id, hs.deal_name,
                                       "withholding_mismatch",
                                       Frac(expected_withholding, 1),
                                       Frac(est_commission, 1),
                                       Frac(diff, 1), "medium", {},
                                       ms[i].confidence))
                          ELSE discs
                  IN  MatchWithholdingsFrom(ms2, discs2, deals, txs, whs, i + 1)

\* the rows are appended and no discrepancy is made
MatchWithholdingsSilently(ms, discs, deals, txs, whs) ==
    [matches |-> MatchWithholdingsFrom(ms, discs, deals, txs, whs, 1).matches,
     discrepancies |-> discs]

\* ReconciliationEngineV3._match_withholdings
MatchWithholdings(ms, discs, deals, txs, whs) ==
    MatchWithholdingsFrom(ms, discs, deals, txs, whs, 1)

\* the confidence of the name+date stage, used again
SplitConfidenceOfNameDateStage == NameDateConfidence

\* confidence=85.0 of the name and date branch of _match_splits
SplitNameDateConfidence == 85

RECURSIVE MatchSplitsFrom(_, _, _, _, _, _)
\* the loop over self.split_transactions of _match_splits, from row s on;
\* returns the matches and split_transactions_unmatched
MatchSplitsFrom(ms, unmatched, deals, txs, splits, s) ==
    IF s > Len(splits) THEN [matches |-> ms, unmatched |-> unmatched]
    ELSE LET t == splits[s]
             split == txs[t]
             existing == {i \in DOMAIN ms :
                            LET hs == deals[ms[i].hubspot_deal]
                            IN  \/ split.deal_name = hs.deal_name
                                \/ split.salescookie_id = hs.hubspot_id}
             ById(hs) == split.salescookie_id = hs.hubspot_id
             ByNameDate(hs) ==
                 /\ split.deal_name = hs.deal_name
                 /\ DatesMatch(split.close_date, hs.close_date, 1)
             direct == {d \in DOMAIN deals :
                           /\ ~DealAlreadyMatched(ms, deals[d])
                           /\ ById(deals[d]) \/ ByNameDate(deals[d])}
         IN  IF existing # {}
             THEN MatchSplitsFrom(AppendToMatch(ms, Min(existing), t), unmatched,
                                  deals, txs, splits, s + 1)
             ELSE IF direct # {}
             THEN LET d == Min(direct)
                      hs == deals[d]
                      new_match ==
                          IF ById(hs)
                          THEN MatchResult(hs.hubspot_id, split.salescookie_id,
                                           "id_match", 100, d, <<t>>, Len(ms) + 1)
                          ELSE MatchResult(hs.hubspot_id, split.salescookie_id,
                                           "name_date_match",
                                           SplitNameDateConfidence, d, <<t>>,
                                           Len(ms) + 1)
                  IN  MatchSplitsFrom(Append(ms, new_match), unmatched,
                                      deals, txs, splits, s + 1)
             ELSE MatchSplitsFrom(ms, Append(unmatched, t), deals, txs, splits,
                                  s + 1)

\* ReconciliationEngineV3._match_splits
MatchSplits(ms, unmatched, deals, txs, splits) ==
    MatchSplitsFrom(ms, unmatched, deals, txs, splits, 1)

----------------------------------------------------------------------------
(* Validation, missing deals, forecasts, result                             *)

RECURSIVE Concat(_)
Concat(ss) == IF ss = <<>> THEN <<>> ELSE Head(ss) \o Concat(Tail(ss))

IncreasePatterns == {"cpi increase", "fp increase", "fixed price increase"}

IsIncreaseName(name) == ContainsAny(Lower(Chars(name)), IncreasePatterns)

\* the discrepancies _validate_increase_revenue_dates appends for one match
IncreaseRevenueDateFindings(m, deals, txs) ==
    LET list == m.salescookie_transactions
        Finding(k) ==
            LET sc == txs[list[k]]
                close_date == sc.close_date
                revenue_start == sc.revenue_start_date
            IN  IF /\ IsIncreaseName(sc.deal_name)
                   /\ close_date # NoDate
                   /\ revenue_start # NoDate
                   /\ \/ revenue_start.m # 1
                      \/ revenue_start.d # 1
                      \/ revenue_start.y # close_date.y + 1
                THEN << Discrepancy(m.hubspot_id, sc.deal_name,
                                    "incorrect_revenue_date", Frac(0, 1),
                                    Frac(0, 1), Frac(0, 1), "medium", {},
                                    m.confidence) >>
                ELSE <<>>
    IN  IF IsIncreaseName(deals[m.hubspot_deal].deal_name)
        THEN Concat([k \in DOMAIN list |-> Finding(k)])
        ELSE <<>>

\* ReconciliationEngineV3._validate_increase_revenue_dates
ValidateIncreaseRevenueDates(ms, deals, txs) ==
    Concat([i \in DOMAIN ms |-> IncreaseRevenueDateFindings(ms[i], deals, txs)])

\* the rows of every type counted in same_deal_count
ExpectedCountingEveryType(list, txs, sc) ==
    LET SameDeal(t) == txs[t].acv_eur = sc.acv_eur
        same_deal_count == Len(SelectSeq(list, SameDeal))
        IsWithholding(t) == txs[t].transaction_type = "withholding"
        withholding_txs == SelectSeq(list, IsWithholding)
        split_div == IF sc.has_split /\ same_deal_count > 1
                     THEN same_deal_count ELSE 1
        wh_div == IF withholding_txs # <<>> THEN 2 ELSE 1
    IN  Frac(sc.acv_eur * sc.commission_rate, 1000 * split_div * wh_div)

\* expected_based_on_sc_data of one regular row of a match whose rows are
\* `list`
ExpectedBasedOnScData(list, txs, sc) ==
    LET SameDeal(t) == txs[t].acv_eur = sc.acv_eur
                       /\ txs[t].transaction_type = "regular"
        same_deal_count == Len(SelectSeq(list, SameDeal))
        IsWithholding(t) == txs[t].transaction_type = "withholding"
        withholding_txs == SelectSeq(list, IsWithholding)
        split_div == IF sc.has_split /\ same_deal_count > 1
                     THEN same_deal_count ELSE 1
        wh_div == IF withholding_txs # <<>> THEN 2 ELSE 1
    IN  Frac(sc.acv_eur * sc.commission_rate, 1000 * split_div * wh_div)

\* a difference of 1.0 counted as an error too
ReachesTolerance(diff) == diff.num >= diff.den

\* abs(expected_based_on_sc_data - sc_amount) > 1.0
ExceedsTolerance(diff) == FracGreater(diff, 1)

\* 'high' from a difference of 10 on
SeverityFromTen(diff) == IF FracGreater(diff, 10) THEN "high" ELSE "medium"

\* 'high' from a difference of 100 on
SeverityFromHundred(diff) == IF FracGreater(diff, 99) THEN "high" ELSE "medium"

\* 'high' if abs(expected_based_on_sc_data - sc_amount) > 100 else 'medium'
Severity(diff) == IF FracGreater(diff, 100) THEN "high" ELSE "medium"

\* the discrepancies the loop body of _validate_matches appends for one match
CalculationFindings(m, deals, txs) ==
    LET hs == deals[m.hubspot_deal]
        list == m.salescookie_transactions
        IsRegular(t) == txs[t].transaction_type = "regular"
        regular_txs == SelectSeq(list, IsRegular)
        IsWithholding(t) == txs[t].transaction_type = "withholding"
        withholding_txs == SelectSeq(list, IsWithholding)
        Finding(k) ==
            LET sc == txs[regular_txs[k]]
                expected == ExpectedBasedOnScData(list, txs, sc)
                diff == FracAbsDiff(expected, Frac(sc.commission_amount, 1))
            IN  IF sc.commission_rate = 0 \/ sc.acv_eur = 0 THEN <<>>
                ELSE IF ExceedsTolerance(diff)
                THEN << Discrepancy(hs.hubspot_id, hs.deal_name,
                            "calculation_error", expected,
                            Frac(sc.commission_amount, 1), diff,
                            Severity(diff),
                            (IF sc.has_split THEN {"split deal"} ELSE {})
                                \cup (IF withholding_txs # <<>>
                                      THEN {"withholding: 50% payment"} ELSE {}),
                            m.confidence) >>
                ELSE <<>>
    IN  IF hs.is_centrally_processed THEN <<>>
        ELSE Concat([k \in DOMAIN regular_txs |-> Finding(k)])

\* ReconciliationEngineV3._validate_matches: what it appends to
\* self.discrepancies
ValidateMatches(ms, deals, txs) ==
    ValidateIncreaseRevenueDates(ms, deals, txs)
        \o Concat([i \in DOMAIN ms |-> CalculationFindings(ms[i], deals, txs)])

\* ReconciliationEngineV2._determine_deal_type
DetermineDealType(deal) ==
    LET product == Lower(Chars(deal.product_name))
        acv_types == Lower(Chars(deal.types_of_acv))
        deployment == Lower(Chars(deal.deployment_type))
    IN  IF ContainsAny(product, {"indexation", "parameter"})
        THEN "indexations_parameter"
        ELSE IF ContainsAny(acv_types, {"managed"}) \/ ContainsAny(product, {"managed"})
        THEN IF ContainsAny(deployment, {"public", "rcloud"})
             THEN "managed_services_public"
             ELSE "managed_services_private"
        ELSE IF ContainsAny(acv_types, {"professional services"}) /\ ~deal.is_ps_deal
        THEN "recurring_professional_services"
        ELSE "software"

\* ReconciliationEngineV2._calculate_expected_commission: [raised, value]
CalculateExpectedCommission(deal, year) ==
    LET base_amount == deal.commission_amount
    IN  IF deal.is_ps_deal
        THEN [raised |-> FALSE, value |-> Frac(base_amount * 10, 1000)]
        ELSE LET r == GetCommissionRate(year, DetermineDealType(deal),
                                        deal.is_ps_deal)
             IN  [raised |-> r.raised, value |-> Frac(base_amount * r.rate, 1000)]

RECURSIVE CheckUnmatchedDealsFrom(_, _, _, _, _)
\* the loop of _check_unmatched_deals from deal d on, `now` being the year
\* datetime.now() gives: [raised, discrepancies]
CheckUnmatchedDealsFrom(discs, ms, deals, now, d) ==
    IF d > Len(deals) THEN [raised |-> FALSE, discrepancies |-> discs]
    ELSE IF DealAlreadyMatched(ms, deals[d])
    THEN CheckUnmatchedDealsFrom(discs, ms, deals, now, d + 1)
    ELSE LET hs == deals[d]
             year == IF hs.close_date # NoDate THEN hs.close_date.y ELSE now
             expected_commission == CalculateExpectedCommission(hs, year)
         IN  IF expected_commission.raised
             THEN [raised |-> TRUE, discrepancies |-> discs]
             ELSE CheckUnmatchedDealsFrom(
                      Append(discs, Discrepancy(hs.hubspot_id, hs.deal_name,
                                 "missing_deal", Frac(0, 1), Frac(0, 1),
                                 expected_commission.value, "high", {}, 0)),
                      ms, deals, now, d + 1)

\* ReconciliationEngineV2._check_unmatched_deals
CheckUnmatchedDeals(discs, ms, deals, now) ==
    CheckUnmatchedDealsFrom(discs, ms, deals, now, 1)

\* whether _check_unmatched_deals reads the clock
ReadsClock(ms, deals) ==
    \E d \in DOMAIN deals :
        ~DealAlreadyMatched(ms, deals[d]) /\ deals[d].close_date = NoDate

\* PLANS[year].kickers: the 'overperformance_<pct>' entries as
\* <<pct, multiplier in hundredths>>
OverperformanceKickers(year) ==
    CASE year = 2023 -> {<<120, 120>>, <<200, 200>>}
      [] year = 2024 -> {<<120, 120>>, <<200, 200>>}
      [] year = 2025 -> {<<100, 110>>, <<130, 120>>, <<160, 130>>,
                         <<180, 140>>, <<200, 150>>}

\* PLANS[year].kickers: the 'earlybird' entry of the years that have one, in
\* hundredths
EarlybirdKicker(year) == IF year = 2025 THEN {120} ELSE {}

\* KickerCalculator._get_applicable_kicker; the achievement percentage is
\* total_acv / (quota_target / 4) * 100, the multiplier is in hundredths
GetApplicableKicker(year, quarter, total_acv) ==
    LET Reaches(pct) == total_acv * 400 >= pct * QuotaTarget(year)
        none == [name |-> "", multiplier |-> 100]
    IN  IF year \notin PlanYears THEN none
        ELSE IF year = 2025 /\ quarter = <<1, 2025>>
        THEN [name |-> "earlybird", multiplier |-> 120]
        ELSE IF year = 2024
        THEN IF Reaches(200) THEN [name |-> "overperformance_200", multiplier |-> 200]
             ELSE IF Reaches(120) THEN [name |-> "overperformance_120", multiplier |-> 120]
             ELSE none
        ELSE IF year = 2025
        THEN IF Reaches(200) THEN [name |-> "overperformance_200", multiplier |-> 150]
             ELSE IF Reaches(180) THEN [name |-> "overperformance_180", multiplier |-> 140]
             ELSE IF Reaches(160) THEN [name |-> "overperformance_160", multiplier |-> 130]
             ELSE IF Reaches(130) THEN [name |-> "overperformance_130", multiplier |-> 120]
             ELSE IF Reaches(100) THEN [name |-> "overperformance_100", multiplier |-> 110]
             ELSE none
        ELSE none

\* KickerCalculator.deals_by_quarter after the constructor's add_deal calls:
\* the deals of one quarter
DealsOfQuarter(deals, quarter) ==
    LET In(d) == d.close_date # NoDate /\ GetQuarterFromDate(d.close_date) = quarter
    IN  SelectSeq(deals, In)

\* KickerCalculator.calculate_quota_progress: [some, quarter, total_acv,
\* applicable_kicker, kicker_multiplier]; some = FALSE is None
CalculateQuotaProgress(deals, quarter) ==
    LET of_quarter == DealsOfQuarter(deals, quarter)
        total_acv == SeqSum([i \in DOMAIN of_quarter |-> of_quarter[i].commission_amount])
        kicker == GetApplicableKicker(quarter[2], quarter, total_acv)
    IN  IF of_quarter = <<>> \/ quarter[2] \notin PlanYears
        THEN [some |-> FALSE, quarter |-> quarter, total_acv |-> 0,
              applicable_kicker |-> "", kicker_multiplier |-> 100]
        ELSE [some |-> TRUE, quarter |-> quarter, total_acv |-> total_acv,
              applicable_kicker |-> kicker.name,
              kicker_multiplier |-> kicker.multiplier]

\* KickerCalculator.calculate_commission_with_kicker
CalculateCommissionWithKicker(deals, base_commission, close_date) ==
    LET none == [kicker_amount |-> Frac(0, 1), kicker_type |-> "",
                 kicker_multiplier |-> 100]
    IN  IF close_date = NoDate THEN none
        ELSE LET progress == CalculateQuotaProgress(deals, GetQuarterFromDate(close_date))
             IN  IF ~progress.some \/ progress.applicable_kicker = "" THEN none
                 ELSE [kicker_amount |->
                           Frac(base_commission * (progress.kicker_multiplier - 100), 100),
                       kicker_type |-> progress.applicable_kicker,
                       kicker_multiplier |-> progress.kicker_multiplier]

\* the entry _analyze_forecasts makes for one forecast row
ForecastDeal(deals, forecast) ==
    LET base_commission == IF forecast.commission_amount # 0
                           THEN forecast.commission_amount
                           ELSE forecast.est_commission
        kicker_info == CalculateCommissionWithKicker(deals, base_commission,
                                                     forecast.close_date)
        explicit_kickers == forecast.early_bird_kicker + forecast.performance_kicker
                                + forecast.campaign_kicker
        total_kickers ==
            IF kicker_info.kicker_amount.num
                   >= explicit_kickers * kicker_info.kicker_amount.den
            THEN kicker_info.kicker_amount
            ELSE Frac(explicit_kickers, 1)
    IN  [deal_name |-> forecast.deal_name, commission |-> base_commission,
         kickers |-> total_kickers, kicker_type |-> kicker_info.kicker_type,
         kicker_multiplier |-> kicker_info.kicker_multiplier]

\* ReconciliationEngineV3._analyze_forecasts: self.forecast_summary
AnalyzeForecasts(deals, txs, forecasts) ==
    LET forecast_deals == [k \in DOMAIN forecasts |-> ForecastDeal(deals, txs[forecasts[k]])]
        quarters == {GetQuarterFromDate(deals[d].close_date) :
                        d \in {e \in DOMAIN deals : deals[e].close_date # NoDate}}
    IN  [total_forecast_amount |->
             SeqSum([k \in DOMAIN forecast_deals |-> forecast_deals[k].commission]),
         deals_with_kickers |->
             Cardinality({k \in DOMAIN forecast_deals :
                             forecast_deals[k].kickers.num > 0}),
         forecast_deals |-> forecast_deals,
         quarterly_quota_progress |->
             {p \in {CalculateQuotaProgress(deals, q) : q \in quarters} : p.some}]

\* the withholding_summary of _generate_enhanced_result
WithholdingSummary(txs, whs) ==
    LET Paid(t) == txs[t].commission_amount
        EstFull(t) == IF txs[t].est_commission = 0 /\ Paid(t) > 0
                      THEN Paid(t) * 2 ELSE txs[t].est_commission
        Withheld(t) == IF EstFull(t) > Paid(t) THEN EstFull(t) - Paid(t) ELSE Paid(t)
        total_paid == SeqSum([k \in DOMAIN whs |-> Paid(whs[k])])
        total_withheld == SeqSum([k \in DOMAIN whs |-> Withheld(whs[k])])
    IN  [total_paid |-> total_paid, total_withheld |-> total_withheld,
         total_full_commission |-> total_paid + total_withheld]

NoResult == [returned |-> FALSE]

\* ReconciliationEngineV2._generate_result with the additions of
\* ReconciliationEngineV3._generate_enhanced_result
GenerateEnhancedResult(ms, discs, deals, txs, pool, central, whs, forecasts, splits, fsummary) ==
    LET Unmatched(d) == deals[d].hubspot_id \notin MatchedHsIds(ms)
        Unclaimed(t) == txs[t].salescookie_id \notin MatchedScIds(ms, txs)
        unmatched_hubspot == SelectSeq([d \in 1..Len(deals) |-> d], Unmatched)
        unmatched_salescookie == SelectSeq(pool, Unclaimed)
    IN  [returned |-> TRUE,
         matches |-> ms,
         unmatched_hubspot |-> unmatched_hubspot,
         unmatched_salescookie |-> unmatched_salescookie,
         discrepancies |-> discs,
         summary |->
           [hubspot_deals_count |-> Len(deals),
            salescookie_transactions_count |-> Len(pool),
            salescookie_total_transactions |-> Len(pool) + Len(central),
            centrally_processed_count |-> Len(central),
            centrally_processed_commission |->
                SeqSum([k \in DOMAIN central |-> txs[central[k]].commission_amount]),
            matched_deals_count |-> Len(ms),
            unmatched_hubspot_count |-> Len(unmatched_hubspot),
            unmatched_salescookie_count |-> Len(unmatched_salescookie),
            total_discrepancies |-> Len(discs),
            withholding_transactions |-> Len(whs),
            forecast_transactions |-> Len(forecasts),
            split_transactions |-> Len(splits),
            withholding_summary |-> WithholdingSummary(txs, whs),
            forecast_summary |-> fsummary]]

----------------------------------------------------------------------------
(* Inputs                                                                   *)

MaxDeals == 2
MaxTx == 2
MaxTxWide == 3
MaxEngines == 2
MaxCalls == 2

D1 == Date(2025, 7, 1, 0)
D3 == Date(2025, 7, 4, 0)

\* every sequence of at most n rows
SeqsUpTo(rows, n) == UNION {[1..k -> rows] : k \in 0..n}

\* Deals as the CRM export gives them.  Names and IDs are interchangeable,
\* so the first deal is always "Deal A" with ID "1" or with no ID.
FirstDealRows ==
    {Deal(id, "Deal A", D1, "Acme GmbH", 1000) : id \in {"1", ""}}

DealRows ==
    {Deal(id, name, D1, "Acme GmbH", 1000) :
        id \in {"1", "2", ""}, name \in {"Deal A", "Deal B"}}

DealSeqs ==
    {ds \in SeqsUpTo(DealRows, MaxDeals) : ds = <<>> \/ ds[1] \in FirstDealRows}

\* a row whose own arithmetic is right: 1000 at 7.0 % pays 70
Paid70(tx) == WithAmounts(tx, 70, 70, 1000, 0)

RegularRows ==
    {Paid70(Tx(r[1], r[2], r[3], r[4], "regular")) :
        r \in {<<"1", "Deal A", D1, "ACME AG">>,
               <<"2", "Deal B", D3, "ACME AG">>,
               <<"", "Deal A", D1, "ACME AG">>,
               <<"", "Deal B", D3, "ACME AG">>,
               <<"", "Deal B", D3, "Beta & Co. KG">>,
               <<"1", "Deal B", D3, "Beta & Co. KG">>}}

\* a withholding row: 35 paid of a full 70
WithholdingRows ==
    {WithAmounts(Tx(r[1], r[2], D1, "ACME AG", "withholding"), 35, 70, 1000, 70) :
        r \in {<<"1", "Deal B">>, <<"", "Deal A">>}}

SplitRows ==
    {WithAmounts(Tx(r[1], r[2], r[3], "ACME AG", "split"), 35, 70, 1000, 0) :
        r \in {<<"1", "Deal B", D3>>, <<"", "Deal A", D1>>, <<"2", "Deal A", D1>>}}

ForecastRows ==
    {WithAmounts(Tx("", "Deal A", D1, "ACME AG", "forecast"), 0, 70, 1000, 70)}

TxRows == RegularRows \cup WithholdingRows \cup SplitRows \cup ForecastRows

TxSeqs == SeqsUpTo(TxRows, MaxTx)

\* longer lists of fewer rows
WideTxRows ==
    {Paid70(Tx("1", "Deal B", D3, "ACME AG", "regular")),
     Paid70(Tx("2", "Deal B", D3, "ACME AG", "regular")),
     Paid70(Tx("", "Deal A", D1, "ACME AG", "regular")),
     WithAmounts(Tx("", "Deal A", D1, "ACME AG", "withholding"), 35, 70, 1000, 70),
     WithAmounts(Tx("1", "Deal B", D3, "ACME AG", "withholding"), 35, 70, 1000, 70),
     WithAmounts(Tx("", "Deal A", D1, "ACME AG", "split"), 35, 70, 1000, 0)}

WideTxSeqs == SeqsUpTo(WideTxRows, MaxTxWide)

\* rows named like recurring price adjustments
IncreaseNames ==
    {"Deal A", "CPI Increase A", "Fixed Price Increase A", "Fix Increase A",
     "FP Increase A", "Indexation A"}

CentralDealSeqs ==
    SeqsUpTo({Deal("1", name, D1, "Acme GmbH", 1000) :
                 name \in {"Deal A", "CPI Increase A", "FP Increase A"}},
             MaxDeals)

CentralTxRows ==
    {[Paid70(Tx(id, name, D1, "ACME AG", type))
         EXCEPT !.revenue_start_date = start] :
        id \in {"1", ""}, name \in IncreaseNames,
        type \in {"regular", "withholding"},
        start \in {NoDate, Date(2026, 1, 1, 0)}}
    \cup {[Paid70(Tx("1", "CPI Increase A", D1, "ACME AG", "regular"))
               EXCEPT !.revenue_start_date = Date(2025, 10, 1, 0)]}

CentralTxSeqs == SeqsUpTo(CentralTxRows, MaxTx)

\* rows that differ in their amounts: all carry the ID of the one deal; the
\* rate is a quarter, so that the products and their halves are the same in
\* binary floating point as in exact arithmetic
ValidateDealSeqs ==
    SeqsUpTo({Deal("1", "Deal A", D1, "Acme GmbH", 1000)}, MaxDeals)

ValidateTxRows ==
    {[WithAmounts(Tx("1", "Deal A", D1, "ACME AG", "regular"), paid, 250, 1000, 0)
         EXCEPT !.has_split = split] :
        paid \in {0, 125, 149, 150, 249, 250, 252, 400}, split \in BOOLEAN}
    \cup {WithAmounts(Tx("1", "Deal A", D1, "ACME AG", "regular"), paid, ra[1], ra[2], 0) :
             paid \in {0, 250}, ra \in {<<0, 1000>>, <<250, 0>>, <<0, 0>>}}
    \cup {WithAmounts(Tx("1", "Deal A", D1, "ACME AG", "withholding"), 125, 250, 1000, 250)}
    \cup {WithAmounts(Tx("1", "Deal A", D1, "ACME AG", "regular"), paid, 73, 50000, 0) :
             paid \in {3600, 3650}}
    \cup {[WithAmounts(Tx("1", "Deal A", D1, "ACME AG", "split"), 125, 250, 1000, 0)
              EXCEPT !.has_split = TRUE]}

ValidateTxSeqs == SeqsUpTo(ValidateTxRows, MaxTx)

\* deals without a close date among the deals, for the calls that read the
\* clock
RunsDealSeqs ==
    SeqsUpTo({Deal("1", "Deal A", D1, "Acme GmbH", 1000),
              Deal("2", "Deal B", D1, "Acme GmbH", 1000),
              Deal("2", "Deal B", NoDate, "Acme GmbH", 1000)}, MaxDeals)

RunsTxSeqs ==
    SeqsUpTo({Paid70(Tx("1", "Deal A", D1, "ACME AG", "regular")),
              Paid70(Tx("", "Deal B", D3, "ACME AG", "regular")),
              Paid70(Tx("", "CPI Increase A", D1, "ACME AG", "regular")),
              WithAmounts(Tx("1", "Deal A", D1, "ACME AG", "withholding"), 35, 70, 1000, 70),
              WithAmounts(Tx("2", "Deal B", D1, "ACME AG", "split"), 35, 70, 1000, 0),
              WithAmounts(Tx("", "Deal A", D1, "ACME AG", "forecast"), 0, 70, 1000, 70)},
             MaxTx)

----------------------------------------------------------------------------
(* The constructor and the phases of reconcile                              *)

NoSummary == [analyzed |-> FALSE]

AllPositions(txs) == [i \in 1..Len(txs) |-> i]

\* ReconciliationEngineV3.__init__ on the rows of `hubspot_deals` and
\* `transactions`
Construct ==
    /\ salescookie_transactions' = AllPositions(transactions')
    /\ regular_transactions' = Categorize(transactions', "regular")
    /\ withholding_transactions' = Categorize(transactions', "withholding")
    /\ forecast_transactions' = Categorize(transactions', "forecast")
    /\ split_transactions' = Categorize(transactions', "split")
    /\ centrally_processed_transactions' = <<>>
    /\ matches' = <<>>
    /\ discrepancies' = <<>>
    /\ split_transactions_unmatched' = <<>>
    /\ forecast_summary' = NoSummary
    /\ pc' = "identify"

EngineWith(deal_seqs, tx_seqs) ==
    /\ hubspot_deals \in deal_seqs
    /\ transactions \in tx_seqs
    /\ salescookie_transactions = AllPositions(transactions)
    /\ regular_transactions = Categorize(transactions, "regular")
    /\ withholding_transactions = Categorize(transactions, "withholding")
    /\ forecast_transactions = Categorize(transactions, "forecast")
    /\ split_transactions = Categorize(transactions, "split")
    /\ centrally_processed_transactions = <<>>
    /\ matches = <<>>
    /\ discrepancies = <<>>
    /\ split_transactions_unmatched = <<>>
    /\ forecast_summary = NoSummary
    /\ result = NoResult
    /\ first_result = NoResult
    /\ runs = [engines |-> 1, calls |-> 0]
    /\ clock_year = 2025
    /\ pc = "identify"

InitWith(deal_seqs, tx_seqs) ==
    /\ EngineWith(deal_seqs, tx_seqs)
    /\ call = NoCall
    /\ ret = NoReturn

Init == InitWith(DealSeqs, TxSeqs)

\* reconcile, phase 0: _identify_centrally_processed_transactions
Identify ==
    /\ pc = "identify"
    /\ LET Central(t) == IsCentrallyProcessed(transactions[t])
           Remaining(t) == ~IsCentrallyProcessed(transactions[t])
       IN  /\ centrally_processed_transactions' =
                 centrally_processed_transactions
                     \o SelectSeq(salescookie_transactions, Central)
           /\ salescookie_transactions' =
                 SelectSeq(salescookie_transactions, Remaining)
    /\ runs' = [runs EXCEPT !.calls = @ + 1]
    /\ pc' = "match_by_id"
    /\ UNCHANGED <<inputs, config_call, regular_transactions, withholding_transactions,
                   forecast_transactions, split_transactions, matches,
                   discrepancies, split_transactions_unmatched,
                   forecast_summary, result, first_result, clock_year>>

\* reconcile, phase 1: the pool becomes self.regular_transactions, then
\* _match_by_id
MatchByIdStage ==
    /\ pc = "match_by_id"
    /\ salescookie_transactions' = regular_transactions
    /\ matches' = MatchById(matches, hubspot_deals, transactions,
                            regular_transactions)
    /\ pc' = "match_by_name_and_date"
    /\ UNCHANGED <<inputs, config_call, regular_transactions, withholding_transactions,
                   forecast_transactions, split_transactions,
                   centrally_processed_transactions, discrepancies,
                   split_transactions_unmatched, forecast_summary, result,
                   first_result, runs, clock_year>>

MatchByNameAndDateStage ==
    /\ pc = "match_by_name_and_date"
    /\ matches' = MatchByNameAndDate(matches, hubspot_deals, transactions,
                                     salescookie_transactions)
    /\ pc' = "match_by_company_and_date"
    /\ UNCHANGED <<inputs, config_call, salescookie_transactions, regular_transactions,
                   withholding_transactions, forecast_transactions,
                   split_transactions, centrally_processed_transactions,
                   discrepancies, split_transactions_unmatched,
                   forecast_summary, result, first_result, runs, clock_year>>

MatchByCompanyAndDateStage ==
    /\ pc = "match_by_company_and_date"
    /\ matches' = MatchByCompanyAndDate(matches, hubspot_deals, transactions,
                                        salescookie_transactions)
    /\ pc' = "match_withholdings"
    /\ UNCHANGED <<inputs, config_call, salescookie_transactions, regular_transactions,
                   withholding_transactions, forecast_transactions,
                   split_transactions, centrally_processed_transactions,
                   discrepancies, split_transactions_unmatched,
                   forecast_summary, result, first_result, runs, clock_year>>

\* reconcile, phase 2
MatchWithholdingsStage ==
    /\ pc = "match_withholdings"
    /\ LET r == MatchWithholdings(matches, discrepancies, hubspot_deals,
                                  transactions, withholding_transactions)
       IN  /\ matches' = r.matches
           /\ discrepancies' = r.discrepancies
    /\ pc' = "match_splits"
    /\ UNCHANGED <<inputs, config_call, salescookie_transactions, regular_transactions,
                   withholding_transactions, forecast_transactions,
                   split_transactions, centrally_processed_transactions,
                   split_transactions_unmatched, forecast_summary, result,
                   first_result, runs, clock_year>>

\* reconcile, phase 3
MatchSplitsStage ==
    /\ pc = "match_splits"
    /\ LET r == MatchSplits(matches, split_transactions_unmatched,
                            hubspot_deals, transactions, split_transactions)
       IN  /\ matches' = r.matches
           /\ split_transactions_unmatched' = r.unmatched
    /\ pc' = "validate_matches"
    /\ UNCHANGED <<inputs, config_call, salescookie_transactions, regular_transactions,
                   withholding_transactions, forecast_transactions,
                   split_transactions, centrally_processed_transactions,
                   discrepancies, forecast_summary, result, first_result,
                   runs, clock_year>>

\* reconcile, phase 4
ValidateMatchesStage ==
    /\ pc = "validate_matches"
    /\ discrepancies' =
           discrepancies \o ValidateMatches(matches, hubspot_deals, transactions)
    /\ pc' = "check_unmatched_deals"
    /\ UNCHANGED <<inputs, config_call, salescookie_transactions, regular_transactions,
                   withholding_transactions, forecast_transactions,
                   split_transactions, centrally_processed_transactions,
                   matches, split_transactions_unmatched, forecast_summary,
                   result, first_result, runs, clock_year>>

\* the years datetime.now() can give once clock_year has been read
ClockYears == {2025, 2026}

\* reconcile, phase 5; an exception of the rate lookup leaves reconcile
CheckUnmatchedDealsStage ==
    /\ pc = "check_unmatched_deals"
    /\ \E now \in ClockYears :
          /\ now >= clock_year
          /\ ReadsClock(matches, hubspot_deals) \/ now = clock_year
          /\ clock_year' = now
          /\ LET r == CheckUnmatchedDeals(discrepancies, matches,
                                          hubspot_deals, now)
             IN  /\ discrepancies' = r.discrepancies
                 /\ pc' = IF r.raised THEN "raised" ELSE "analyze_forecasts"
                 /\ first_result' =
                        IF r.raised /\ runs = [engines |-> 1, calls |-> 1]
                        THEN [returned |-> FALSE, raised |-> TRUE]
                        ELSE first_result
                 /\ result' = IF r.raised THEN [returned |-> FALSE, raised |-> TRUE]
                              ELSE result
    /\ UNCHANGED <<inputs, config_call, salescookie_transactions, regular_transactions,
                   withholding_transactions, forecast_transactions,
                   split_transactions, centrally_processed_transactions,
                   matches, split_transactions_unmatched, forecast_summary,
                   runs>>

\* reconcile, phase 6
AnalyzeForecastsStage ==
    /\ pc = "analyze_forecasts"
    /\ forecast_summary' =
           AnalyzeForecasts(hubspot_deals, transactions, forecast_transactions)
    /\ pc' = "generate_result"
    /\ UNCHANGED <<inputs, config_call, salescookie_transactions, regular_transactions,
                   withholding_transactions, forecast_transactions,
                   split_transactions, centrally_processed_transactions,
                   matches, discrepancies, split_transactions_unmatched,
                   result, first_result, runs, clock_year>>

\* reconcile, phase 7, and the return
GenerateResultStage ==
    /\ pc = "generate_result"
    /\ result' = GenerateEnhancedResult(matches, discrepancies, hubspot_deals,
                     transactions, salescookie_transactions,
                     centrally_processed_transactions,
                     withholding_transactions, forecast_transactions,
                     split_transactions, forecast_summary)
    /\ first_result' = IF runs = [engines |-> 1, calls |-> 1]
                       THEN result' ELSE first_result
    /\ pc' = "returned"
    /\ UNCHANGED <<inputs, config_call, salescookie_transactions, regular_transactions,
                   withholding_transactions, forecast_transactions,
                   split_transactions, centrally_processed_transactions,
                   matches, discrepancies, split_transactions_unmatched,
                   forecast_summary, runs, clock_year>>

\* one call of reconcile on a new engine
Next ==
    \/ Identify
    \/ MatchByIdStage
    \/ MatchByNameAndDateStage
    \/ MatchByCompanyAndDateStage
    \/ MatchWithholdingsStage
    \/ MatchSplitsStage
    \/ ValidateMatchesStage
    \/ CheckUnmatchedDealsStage
    \/ AnalyzeForecastsStage
    \/ GenerateResultStage

Spec == Init /\ [][Next]_vars

SpecWide == InitWith(DealSeqs, WideTxSeqs) /\ [][Next]_vars

SpecCentral == InitWith(CentralDealSeqs, CentralTxSeqs) /\ [][Next]_vars

SpecValidate == InitWith(ValidateDealSeqs, ValidateTxSeqs) /\ [][Next]_vars

\* Deals that differ in what their category is inferred from, and in the
\* year of their plan: deal "1" has a row with its ID, deal "2" has none
D2024 == Date(2024, 7, 1, 0)

DealKinds ==
    {<<"", "", "", FALSE>>, <<"", "", "", TRUE>>,
     <<"Managed Services", "", "Public Cloud", FALSE>>,
     <<"Managed Services", "", "", FALSE>>,
     <<"Professional Services", "", "", FALSE>>,
     <<"Professional Services", "", "", TRUE>>,
     <<"", "Indexation Parameter", "", FALSE>>}

UnmatchedDealRows ==
    {Deal("1", "Deal A", D1, "Acme GmbH", 1000)}
    \cup {[Deal("2", "Deal B", date, "Acme GmbH", 1000)
              EXCEPT !.types_of_acv = k[1], !.product_name = k[2],
                     !.deployment_type = k[3], !.is_ps_deal = k[4]] :
             date \in {D1, D2024}, k \in DealKinds}

UnmatchedDealSeqs == SeqsUpTo(UnmatchedDealRows, MaxDeals)

UnmatchedTxSeqs ==
    SeqsUpTo({Paid70(Tx("1", "Deal A", D1, "ACME AG", "regular"))}, MaxTx)

SpecUnmatched == InitWith(UnmatchedDealSeqs, UnmatchedTxSeqs) /\ [][Next]_vars

\* Withholding rows that differ in the paid and the full amount: the full
\* amount above the paid one, equal to it, one unit above it, below it, zero,
\* and a paid amount that is zero or negative (a clawback)
WithholdingAmounts ==
    {<<500, 1000>>, <<500, 0>>, <<500, 500>>, <<500, 501>>, <<500, 300>>,
     <<0, 0>>, <<0, 100>>, <<-5, 0>>, <<-5, -10>>}

SummaryTxRows ==
    {WithAmounts(Tx("1", "Deal A", D1, "ACME AG", "withholding"), a[1], 250, 1000, a[2]) :
        a \in WithholdingAmounts}
    \cup {WithAmounts(Tx("1", "Deal A", D1, "ACME AG", "regular"), 250, 250, 1000, 0)}

SummaryTxSeqs == SeqsUpTo(SummaryTxRows, MaxTx)

SpecSummary == InitWith(ValidateDealSeqs, SummaryTxSeqs) /\ [][Next]_vars

\* Deals and rows of one company that share neither ID nor name, so that
\* only _match_by_company_and_date pairs them: the rows close up to eight
\* days before or after the deal, at midnight or at noon, and their ACV is
\* equal to the deal's amount, next to a tenth away from it, or zero
CompanyDay(offset, hour) == Date(2025, 7, 10 + offset, hour)

CompanyDealRows ==
    {Deal("1", "Deal A", CompanyDay(0, 0), "Acme GmbH", 1000),
     Deal("2", "Deal A", CompanyDay(0, 0), "Acme GmbH", 1100)}

CompanyDealSeqs == SeqsUpTo(CompanyDealRows, MaxDeals)

CompanyTxRows ==
    {WithAmounts(Tx("3", "Deal B", CompanyDay(r[1], 0), "ACME AG", "regular"),
                 0, 0, r[2], 0) :
        r \in {<<-7, 0>>, <<0, 950>>, <<0, 1000>>, <<8, 1000>>}}
    \cup {WithAmounts(Tx("4", "Deal B", CompanyDay(offset, 12), "ACME AG", "regular"),
                      0, 0, 1000, 0) :
             offset \in {-1, 1}}
    \cup {WithAmounts(Tx("4", "Deal B", CompanyDay(r[1], 0), "ACME AG", "regular"),
                      0, 0, r[2], 0) :
             r \in {<<7, 950>>, <<0, 909>>, <<0, 910>>, <<0, 1111>>, <<0, 1112>>}}

CompanyTxSeqs == SeqsUpTo(CompanyTxRows, MaxTx)

SpecCompany == InitWith(CompanyDealSeqs, CompanyTxSeqs) /\ [][Next]_vars

\* a fresh engine is built from the same two lists
NewEngine ==
    /\ pc \in {"returned", "raised"}
    /\ runs = [engines |-> 1, calls |-> 1]
    /\ runs.engines < MaxEngines
    /\ UNCHANGED <<inputs, config_call>>
    /\ Construct
    /\ runs' = [engines |-> runs.engines + 1, calls |-> 0]
    /\ UNCHANGED <<result, first_result, clock_year>>

\* reconcile is called again on the same engine
ReconcileAgain ==
    /\ pc = "returned"
    /\ runs.engines = 1
    /\ runs.calls < MaxCalls
    /\ pc' = "identify"
    /\ UNCHANGED <<inputs, config_call, salescookie_transactions, regular_transactions,
                   withholding_transactions, forecast_transactions,
                   split_transactions, centrally_processed_transactions,
                   matches, discrepancies, split_transactions_unmatched,
                   forecast_summary, result, first_result, runs, clock_year>>

\* several calls: on the first engine again, or on a fresh engine
NextRuns ==
    \/ Identify
    \/ MatchByIdStage
    \/ MatchByNameAndDateStage
    \/ MatchByCompanyAndDateStage
    \/ MatchWithholdingsStage
    \/ MatchSplitsStage
    \/ ValidateMatchesStage
    \/ CheckUnmatchedDealsStage
    \/ AnalyzeForecastsStage
    \/ GenerateResultStage
    \/ NewEngine
    \/ ReconcileAgain

SpecRuns == InitWith(RunsDealSeqs, RunsTxSeqs) /\ [][NextRuns]_vars

----------------------------------------------------------------------------
(* Calls of the class methods of CommissionConfig, on their own: the engine *)
(* is built from empty lists and not run.                                   *)

engine == <<hubspot_deals, transactions, salescookie_transactions,
            regular_transactions, withholding_transactions,
            forecast_transactions, split_transactions,
            centrally_processed_transactions, matches, discrepancies,
            split_transactions_unmatched, forecast_summary, result,
            first_result, runs, clock_year, pc>>

InitCalls(calls) ==
    /\ EngineWith({<<>>}, {<<>>})
    /\ call \in calls
    /\ ret = NoReturn

\* years with and without a plan
ConfigYears == 2022..2026

\* deal types: the keys of the rate tables, free text that holds keywords of
\* DEAL_TYPE_MAPPING, and free text that holds none
TypeStrings ==
    PlanCategories
    \cup {"sw", "ms", "ps", "managed software", "balance sheet",
          "Managed Services", "Managed Services Public", "Professional Services",
          "Indexation Parameter", "Nordea Bank Abp"}
    \cup {"", "Sage", "Deal A", "Acme GmbH", "Managed Cloud", "Public Cloud", "rCloud"}

RateCalls ==
    {[fn |-> "get_commission_rate", year |-> y, deal_type |-> t, is_ps |-> p] :
        y \in ConfigYears, t \in TypeStrings, p \in BOOLEAN}

\* CommissionConfig.get_commission_rate(year, deal_type, is_ps)
GetCommissionRateCall ==
    /\ call.fn = "get_commission_rate"
    /\ ret = NoReturn
    /\ LET r == GetCommissionRate(call.year, call.deal_type, call.is_ps)
       IN  ret' = [returned |-> TRUE, raised |-> r.raised, rate |-> r.rate]
    /\ UNCHANGED <<engine, call>>

NextRates == GetCommissionRateCall

SpecRates == InitCalls(RateCalls) /\ [][NextRates]_vars

\* quarterly totals at and next to the thresholds of the plans: the quarter
\* of a quota of 1500000 is 375000, of 1700000 it is 425000
QuarterTotals ==
    {0, 374999, 375000, 449999, 450000, 749999, 750000, 1000000,
     424999, 425000, 552499, 552500, 679999, 680000, 764999, 765000,
     849999, 850000}

KickerCalls ==
    {[fn |-> "_get_applicable_kicker", quarter |-> <<n, y>>, total_acv |-> a] :
        n \in 1..4, y \in ConfigYears, a \in QuarterTotals}

\* KickerCalculator.calculate_quota_progress for a quarter whose deals sum to
\* total_acv, as far as the kicker
GetApplicableKickerCall ==
    /\ call.fn = "_get_applicable_kicker"
    /\ ret = NoReturn
    /\ LET k == GetApplicableKicker(call.quarter[2], call.quarter, call.total_acv)
       IN  ret' = [returned |-> TRUE, name |-> k.name, multiplier |-> k.multiplier]
    /\ UNCHANGED <<engine, call>>

NextKicker == GetApplicableKickerCall

SpecKicker == InitCalls(KickerCalls) /\ [][NextKicker]_vars

\* close and service-start dates: the first and the last month of every
\* quarter of two years
QuarterDates ==
    {Date(y, m, 15, 0) : y \in {2024, 2025}, m \in {1, 3, 4, 6, 7, 9, 10, 12}}

SplitCalls ==
    {[fn |-> "calculate_split_quarters", close_date |-> c, service_start_date |-> s] :
        c \in QuarterDates, s \in QuarterDates \cup {NoDate}}

\* CommissionConfig.calculate_split_quarters(close_date, service_start_date)
CalculateSplitQuartersCall ==
    /\ call.fn = "calculate_split_quarters"
    /\ ret = NoReturn
    /\ ret' = [returned |-> TRUE,
               value |-> CalculateSplitQuarters(call.close_date, call.service_start_date)]
    /\ UNCHANGED <<engine, call>>

NextQuarters == CalculateSplitQuartersCall

SpecQuarters == InitCalls(SplitCalls) /\ [][NextQuarters]_vars

\* close dates up to eight days before and after one day, at three times of
\* the day, and a missing date
ToleranceDates ==
    {CompanyDay(offset, hour) :
        offset \in {-8, -7, -2, -1, 0, 1, 2, 7, 8}, hour \in {0, 9, 18}}
    \cup {NoDate}

\* the tolerances of the stages: one day, and seven for company+date
ToleranceDays == {1, 7}

DatesMatchCalls ==
    {[fn |-> "_dates_match", date1 |-> a, date2 |-> b, tolerance_days |-> n] :
        a \in ToleranceDates, b \in ToleranceDates, n \in ToleranceDays}

\* ReconciliationEngineV3._dates_match(date1, date2, tolerance_days)
DatesMatchCall ==
    /\ call.fn = "_dates_match"
    /\ ret = NoReturn
    /\ ret' = [returned |-> TRUE,
               value |-> DatesMatch(call.date1, call.date2, call.tolerance_days)]
    /\ UNCHANGED <<engine, call>>

NextDates == DatesMatchCall

SpecDates == InitCalls(DatesMatchCalls) /\ [][NextDates]_vars

----------------------------------------------------------------------------
(* SalesCookieParserV2.detect_data_source and assess_data_quality.  A data  *)
(* frame is [columns, rows]: the set of its column names and the sequence   *)
(* of its rows, a row being a function from the columns to cells.  A cell   *)
(* is a string, or NoValue for the NaN of an empty cell.  The character     *)
(* HORIZONTAL ELLIPSIS is written [U+2026] in the strings of the model and  *)
(* is one element "U+2026" of their character sequences.                    *)

MaxRows == 2

\* the rows of the frames that hold the case of one name in ten
TenRows == 10

NoValue == "<NaN>"

\* Series.fillna('') of one cell
FillNa(cell) == IF cell = NoValue THEN "" ELSE cell

\* str.endswith
EndsWith(chars, suffix) ==
    /\ Len(chars) >= Len(suffix)
    /\ SubSeq(chars, Len(chars) - Len(suffix) + 1, Len(chars)) = suffix

\* df[column].notna().sum()
NotNaCount(df, column) ==
    Cardinality({i \in DOMAIN df.rows : df.rows[i][column] # NoValue})

\* df[column].isna().sum()
IsNaCount(df, column) ==
    Cardinality({i \in DOMAIN df.rows : df.rows[i][column] = NoValue})

\* df['Deal Name'].fillna('').str.endswith('[U+2026]').sum()
TruncatedCount(df) ==
    Cardinality({i \in DOMAIN df.rows :
                    EndsWith(Chars(FillNa(df.rows[i]["Deal Name"])), Chars("[U+2026]"))})

\* SalesCookieParserV2.detect_data_source
DetectDataSource(df) ==
    IF "Commission Currency" \in df.columns /\ "Is Closed Won" \in df.columns
    THEN "manual"
    ELSE IF {"Commission", "Commission Rate", "Unique ID"} \subseteq df.columns
    THEN IF "Deal Name" \in df.columns /\ TruncatedCount(df) * 10 > Len(df.rows)
         THEN "scraped"
         ELSE "manual"
    ELSE "scraped"

\* critical_fields of assess_data_quality, in its order
CriticalFields == <<"Customer", "Close Date", "Commission", "Commission Rate">>

\* the keys of missing_fields after the checks of assess_data_quality
MissingFields(df) ==
    (IF "Unique ID" \in df.columns THEN {} ELSE {"Unique ID"})
    \cup (IF "Deal Name" \in df.columns THEN {} ELSE {"Deal Name"})
    \cup {CriticalFields[k] : k \in
             {j \in DOMAIN CriticalFields :
                 \/ CriticalFields[j] \notin df.columns
                 \/ IsNaCount(df, CriticalFields[j]) > 0}}

\* SalesCookieParserV2.assess_data_quality: the fields of the report that
\* the score is made of, and the score as a fraction
AssessDataQuality(df) ==
    LET total == Len(df.rows)
        valid_ids == IF "Unique ID" \in df.columns THEN NotNaCount(df, "Unique ID") ELSE 0
        truncated_names == IF "Deal Name" \in df.columns THEN TruncatedCount(df) ELSE 0
        missing_fields == MissingFields(df)
        deducted == 100 * total - (total - valid_ids) * 30 - truncated_names * 20
                        - Cardinality(missing_fields) * 10 * total
    IN  [total_records |-> total,
         valid_ids |-> valid_ids,
         truncated_names |-> truncated_names,
         missing_fields |-> missing_fields,
         quality_score |-> IF total > 0
                           THEN IF deducted < 0 THEN Frac(0, 1) ELSE Frac(deducted, total)
                           ELSE Frac(100, 1)]

\* the cells a column can hold
NameCells == {"Deal A", "Deal A[U+2026]", "Deal A...", NoValue}

FilledCell(column) ==
    CASE column = "Close Date" -> "2025-07-15"
      [] column = "Commission" -> "3650 (EUR)"
      [] column = "Commission Rate" -> "7.30%"
      [] column = "Commission Currency" -> "EUR"
      [] column = "Is Closed Won" -> "true"
      [] OTHER -> ""

\* the row of a frame with these columns whose ID, name and customer cells
\* are the ones given
RowOver(columns, id, name, customer) ==
    [c \in columns |->
        CASE c = "Unique ID" -> id
          [] c = "Deal Name" -> name
          [] c = "Customer" -> customer
          [] OTHER -> FilledCell(c)]

RowsOver(columns) ==
    {RowOver(columns, id, name, customer) :
        id \in {"1", NoValue}, name \in NameCells, customer \in {"ACME AG", NoValue}}

QualityColumns ==
    {"Unique ID", "Deal Name", "Customer", "Close Date", "Commission", "Commission Rate"}

QualityFrames ==
    UNION {{[columns |-> cols, rows |-> rows] : rows \in SeqsUpTo(RowsOver(cols), MaxRows)} :
              cols \in SUBSET QualityColumns}

AssessCalls == {[fn |-> "assess_data_quality", df |-> df] : df \in QualityFrames}

\* frames of ten rows whose first k names end in the marker
TenRowFrames(columns) ==
    {[columns |-> columns,
      rows |-> [i \in 1..TenRows |->
                  RowOver(columns, "1", IF i <= k THEN marked ELSE "Deal A", "ACME AG")]] :
        k \in 0..TenRows, marked \in {"Deal A[U+2026]", "Deal A..."}}

SourceColumns ==
    {"Commission Currency", "Is Closed Won", "Commission", "Commission Rate",
     "Unique ID", "Deal Name"}

SourceRowsOver(columns) == {RowOver(columns, "1", name, "ACME AG") : name \in NameCells}

SourceFrames ==
    UNION {{[columns |-> cols, rows |-> rows] : rows \in SeqsUpTo(SourceRowsOver(cols), MaxRows)}
              \cup TenRowFrames(cols) :
              cols \in SUBSET SourceColumns}

DetectCalls == {[fn |-> "detect_data_source", df |-> df] : df \in SourceFrames}

DetectDataSourceCall ==
    /\ call.fn = "detect_data_source"
    /\ ret = NoReturn
    /\ ret' = [returned |-> TRUE, source |-> DetectDataSource(call.df)]
    /\ UNCHANGED <<engine, call>>

AssessDataQualityCall ==
    /\ call.fn = "assess_data_quality"
    /\ ret = NoReturn
    /\ ret' = [returned |-> TRUE, report |-> AssessDataQuality(call.df)]
    /\ UNCHANGED <<engine, call>>

NextParser ==
    \/ DetectDataSourceCall
    \/ AssessDataQualityCall

SpecParser == InitCalls(DetectCalls \cup AssessCalls) /\ [][NextParser]_vars

----------------------------------------------------------------------------
(* Properties.  Unless they say otherwise they are about the first          *)
(* reconcile of a new engine, which is all that Spec, SpecWide, SpecCentral *)
(* and SpecValidate hold; SpecRuns holds the later calls.                   *)

Returned == pc = "returned"

\* the rows in the transaction list of a match
RowsOf(m) == Range(m.salescookie_transactions)

DistinctDealIds ==
    \A d, e \in DOMAIN hubspot_deals :
        d # e => hubspot_deals[d].hubspot_id # hubspot_deals[e].hubspot_id

\* C1: after reconcile on deals with pairwise distinct IDs, no transaction is
\* in the transaction list of more than one match, whichever stage put it
\* there.
C1_TransactionInOneMatch ==
    (Returned /\ DistinctDealIds) =>
        \A i, j \in DOMAIN result.matches :
            i # j => RowsOf(result.matches[i]) \cap RowsOf(result.matches[j]) = {}

\* C2: after reconcile, every transaction that is not centrally managed is
\* either in the transaction list of some match or in the unmatched
\* transactions of the result, and not in both.
C2_MatchedOrUnmatched ==
    Returned =>
        \A t \in DOMAIN transactions :
            ~IsCentrallyProcessed(transactions[t]) =>
                LET in_match == \E i \in DOMAIN result.matches :
                                    t \in RowsOf(result.matches[i])
                    in_unmatched == t \in Range(result.unmatched_salescookie)
                IN  in_match # in_unmatched

AfterIdentify ==
    pc \in {"match_by_id", "match_by_name_and_date",
            "match_by_company_and_date", "match_withholdings"}

AfterSomeRegularStage ==
    pc \in {"match_by_name_and_date", "match_by_company_and_date",
            "match_withholdings"}

\* C3: a transaction whose name holds a centrally-managed marker is out of
\* the matching pool from the identification on, is claimed by none of the
\* exact-ID, name+date and company+date stages, and is not among the
\* unmatched transactions of the result.
C3_CentralOutOfPool ==
    \A t \in DOMAIN transactions :
        IsCentrallyProcessed(transactions[t]) =>
            /\ AfterIdentify => t \notin Range(salescookie_transactions)
            /\ AfterSomeRegularStage =>
                   \A i \in DOMAIN matches : t \notin RowsOf(matches[i])
            /\ Returned => t \notin Range(result.unmatched_salescookie)

\* C4: after reconcile on deals with pairwise distinct IDs, no deal is the
\* deal of more than one match.
C4_DealInOneMatch ==
    (Returned /\ DistinctDealIds) =>
        \A i, j \in DOMAIN result.matches :
            i # j => result.matches[i].hubspot_deal # result.matches[j].hubspot_deal

\* a deal matched by ID, while an unclaimed row of the pool has its name and
\* date
C4_Witness ==
    /\ Returned
    /\ DistinctDealIds
    /\ \E i \in DOMAIN result.matches, t \in Range(salescookie_transactions) :
          LET m == result.matches[i]
              hs == hubspot_deals[m.hubspot_deal]
          IN  /\ m.match_type = "id"
              /\ \A j \in DOMAIN result.matches : t \notin RowsOf(result.matches[j])
              /\ transactions[t].salescookie_id \notin MatchedScIds(result.matches, transactions)
              /\ transactions[t].deal_name = hs.deal_name
              /\ transactions[t].close_date = hs.close_date

\* the markers of recurring price adjustments: those the code looks for and
\* 'Fixed Price Increase'
RecurringMarkers == CentralIndicators \cup {"fixed price increase"}

\* C5: the identification moves exactly the transactions whose name holds,
\* in any case, a recurring-price-adjustment marker ('CPI Increase' and
\* 'Fixed Price Increase' among them) to the centrally-processed list and
\* leaves the others, in input order, in the pool.
C5_IdentifyMovesMarked ==
    pc = "match_by_id" =>
        LET Marked(t) == ContainsAny(Lower(Chars(transactions[t].deal_name)),
                                     RecurringMarkers)
            Other(t) == ~Marked(t)
        IN  /\ centrally_processed_transactions =
                   SelectSeq(AllPositions(transactions), Marked)
            /\ salescookie_transactions =
                   SelectSeq(AllPositions(transactions), Other)

\* C6: every centrally-managed transaction is, in the result, the one
\* transaction of a match of its own with strategy centrally managed and
\* confidence 100, and that match has no calculation discrepancy.
C6_CentralAutoResolved ==
    Returned =>
        \A k \in DOMAIN centrally_processed_transactions :
            \E i \in DOMAIN result.matches :
                LET m == result.matches[i]
                IN  /\ m.match_type = "centrally_processed"
                    /\ m.confidence = 100
                    /\ m.salescookie_transactions =
                           <<centrally_processed_transactions[k]>>
                    /\ \A n \in DOMAIN result.discrepancies :
                           result.discrepancies[n].discrepancy_type = "calculation_error"
                               => result.discrepancies[n].deal_id # m.hubspot_id

\* the regular rows of the pool that carry an ID
PoolRowsWithId(id) ==
    {t \in Range(salescookie_transactions) :
        /\ transactions[t].transaction_type = "regular"
        /\ transactions[t].salescookie_id = id}

\* deal d is in a match made by ID, of confidence 100, that holds every pool
\* row with the deal's ID
InExactIdMatch(d) ==
    \E i \in DOMAIN result.matches :
        LET m == result.matches[i]
        IN  /\ m.hubspot_deal = d
            /\ m.match_type = "id"
            /\ m.confidence = 100
            /\ PoolRowsWithId(hubspot_deals[d].hubspot_id) \subseteq RowsOf(m)

C8_ConfidenceByStrategy ==
    Returned =>
        \A i \in DOMAIN result.matches :
            LET m == result.matches[i]
            IN  /\ m.match_type \in {"id", "id_match"} => m.confidence = 100
                /\ m.match_type \in {"name_date", "name_date_match"}
                       => m.confidence = 95

\* C8: a match made by exact ID has confidence 100 whichever stage made it;
\* a match made by name and date has confidence 95 when the name+date stage
\* made it and 85 when the split stage made it.
C8_ConfidenceByStrategyAndStage ==
    Returned =>
        \A i \in DOMAIN result.matches :
            LET m == result.matches[i]
            IN  /\ m.match_type \in {"id", "id_match"} => m.confidence = 100
                /\ m.match_type = "name_date" => m.confidence = 95
                /\ m.match_type = "name_date_match" => m.confidence = 85

\* a result with a match the split stage made by name and date next to a
\* match made by ID
C8_Witness ==
    /\ Returned
    /\ \E i, j \in DOMAIN result.matches :
          /\ result.matches[i].match_type = "name_date_match"
          /\ result.matches[j].match_type = "id"

\* what the claim compares of a call: the matches and the discrepancies, or
\* the exception
Outcome(r) ==
    IF r.returned
    THEN [matches |-> r.matches, discrepancies |-> r.discrepancies]
    ELSE [raised |-> TRUE]

\* C9: the reconcile of a second engine built from the same deals and
\* transactions gives the matches and the discrepancies the first gave, in
\* the same order.
C9_SameOutcome ==
    (pc \in {"returned", "raised"} /\ runs = [engines |-> 2, calls |-> 1])
        => Outcome(result) = Outcome(first_result)

\* the positions <<i, k>> of the regular rows without the split flag, in
\* matches of deal ID h without a withholding row, whose basis times rate is
\* e, whose paid amount is p and differs from e by more than 1
OwedCalculationErrors(h, e, p) ==
    {ik \in UNION {{<<i, k>> : k \in DOMAIN result.matches[i].salescookie_transactions} :
                       i \in DOMAIN result.matches} :
        LET m == result.matches[ik[1]]
            tx == transactions[m.salescookie_transactions[ik[2]]]
        IN  /\ hubspot_deals[m.hubspot_deal].hubspot_id = h
            /\ \A t \in RowsOf(m) : transactions[t].transaction_type # "withholding"
            /\ tx.transaction_type = "regular"
            /\ ~tx.has_split
            /\ Frac(tx.acv_eur * tx.commission_rate, 1000) = e
            /\ tx.commission_amount = p
            /\ Abs(tx.acv_eur * tx.commission_rate - 1000 * tx.commission_amount) > 1000}

\* the same, of the rows whose basis and rate are not zero
OwedNonZeroCalculationErrors(h, e, p) ==
    {ik \in OwedCalculationErrors(h, e, p) :
        LET tx == transactions[result.matches[ik[1]].salescookie_transactions[ik[2]]]
        IN  tx.acv_eur # 0 /\ tx.commission_rate # 0}

\* the calculation discrepancies of deal ID h for a row without split flag
\* in a match without withholding row, with expected amount e and paid
\* amount p
PlainCalculationErrors(h, e, p) ==
    {n \in DOMAIN result.discrepancies :
        LET x == result.discrepancies[n]
        IN  /\ x.discrepancy_type = "calculation_error"
            /\ x.deal_id = h
            /\ x.details = {}
            /\ x.expected_value = e
            /\ x.actual_value = Frac(p, 1)}

DealIds == {hubspot_deals[d].hubspot_id : d \in DOMAIN hubspot_deals}

ExpectedAmounts ==
    {Frac(transactions[t].acv_eur * transactions[t].commission_rate, 1000) :
        t \in DOMAIN transactions}

PaidAmounts == {transactions[t].commission_amount : t \in DOMAIN transactions}

\* C10 as claimed: in a match without withholding row, a regular row without
\* the split flag gets a calculation discrepancy, with basis times rate of
\* the row as the expected amount, exactly when that differs from the paid
\* amount by more than 1.
C10_ErrorIffBeyondTolerance ==
    Returned =>
        \A h \in DealIds, e \in ExpectedAmounts, p \in PaidAmounts :
            Cardinality(PlainCalculationErrors(h, e, p))
                = Cardinality(OwedCalculationErrors(h, e, p))

\* C10: the same of the rows whose basis and rate are both non-zero; a row
\* with a zero basis or a zero rate gets no calculation discrepancy.
C10_NonZeroErrorIffBeyondTolerance ==
    Returned =>
        \A h \in DealIds, e \in ExpectedAmounts, p \in PaidAmounts :
            Cardinality(PlainCalculationErrors(h, e, p))
                = Cardinality(OwedNonZeroCalculationErrors(h, e, p))

\* a match without withholding row that holds a row paid 1 less than
\* expected, which is within the tolerance, and a row paid 2 more, which has
\* its discrepancy
C10_Witness ==
    /\ Returned
    /\ \E i \in DOMAIN result.matches :
          LET m == result.matches[i]
              Plain(t) == /\ transactions[t].transaction_type = "regular"
                          /\ ~transactions[t].has_split
                          /\ transactions[t].acv_eur = 1000
                          /\ transactions[t].commission_rate = 250
          IN  /\ \A t \in RowsOf(m) : transactions[t].transaction_type # "withholding"
              /\ \E t \in RowsOf(m) : Plain(t) /\ transactions[t].commission_amount = 249
              /\ \E t \in RowsOf(m) : Plain(t) /\ transactions[t].commission_amount = 252
              /\ PlainCalculationErrors(m.hubspot_id, Frac(250000, 1000), 252) # {}
              /\ PlainCalculationErrors(m.hubspot_id, Frac(250000, 1000), 249) = {}

\* the calculation discrepancies of the result for deal ID h
CalculationErrorsOf(h) ==
    {n \in DOMAIN result.discrepancies :
        /\ result.discrepancies[n].discrepancy_type = "calculation_error"
        /\ result.discrepancies[n].deal_id = h}

\* the result has one match, made by ID, whose one row is a regular row of
\* basis 50000 and rate 0.073 with the paid amount p
OneIdMatchPaid(p) ==
    /\ Returned
    /\ Len(result.matches) = 1
    /\ result.matches[1].match_type = "id"
    /\ Len(result.matches[1].salescookie_transactions) = 1
    /\ LET tx == transactions[result.matches[1].salescookie_transactions[1]]
       IN  /\ tx.transaction_type = "regular"
           /\ tx.acv_eur = 50000
           /\ tx.commission_rate = 73
           /\ tx.commission_amount = p

\* C11 as claimed: a deal matched by ID to one regular row of basis 50000,
\* rate 0.073 and paid amount 3600 gets one calculation discrepancy, of
\* impact 50 and severity high.
C11_Paid3600High ==
    OneIdMatchPaid(3600) =>
        LET errs == CalculationErrorsOf(result.matches[1].hubspot_id)
        IN  /\ Cardinality(errs) = 1
            /\ \A n \in errs :
                   /\ FracEq(result.discrepancies[n].impact_eur, Frac(50, 1))
                   /\ result.discrepancies[n].severity = "high"

\* C11: the same row gets one calculation discrepancy, of impact 50 and
\* severity medium, 50 being no more than 100.
C11_Paid3600Medium ==
    OneIdMatchPaid(3600) =>
        LET errs == CalculationErrorsOf(result.matches[1].hubspot_id)
        IN  /\ Cardinality(errs) = 1
            /\ \A n \in errs :
                   /\ FracEq(result.discrepancies[n].impact_eur, Frac(50, 1))
                   /\ result.discrepancies[n].severity = "medium"

\* the deal of the scenario, matched by ID to the row paid 3600, with its
\* discrepancy
C11_Witness ==
    /\ OneIdMatchPaid(3600)
    /\ CalculationErrorsOf(result.matches[1].hubspot_id) # {}

\* the calculation discrepancies of the result
CalculationErrors ==
    {n \in DOMAIN result.discrepancies :
        result.discrepancies[n].discrepancy_type = "calculation_error"}

\* discrepancy x records the paid amount of a regular row of a match of its
\* deal, and its impact is the distance of its expected amount from it
ImpactIsDistance(x) ==
    \E i \in DOMAIN result.matches :
        /\ result.matches[i].hubspot_id = x.deal_id
        /\ \E t \in RowsOf(result.matches[i]) :
              /\ transactions[t].transaction_type = "regular"
              /\ x.actual_value = Frac(transactions[t].commission_amount, 1)
              /\ x.impact_eur = FracAbsDiff(x.expected_value,
                                            Frac(transactions[t].commission_amount, 1))

\* C12: every calculation discrepancy of the result has the distance of the
\* expected amount from the paid amount as its impact, which is more than 1;
\* its severity is high when the impact is more than 100 and medium when it
\* is not.
C12_ImpactAndSeverity ==
    Returned =>
        \A n \in CalculationErrors :
            LET x == result.discrepancies[n]
            IN  /\ ImpactIsDistance(x)
                /\ FracGreater(x.impact_eur, 1)
                /\ FracGreater(x.impact_eur, 100) => x.severity = "high"
                /\ ~FracGreater(x.impact_eur, 100) => x.severity = "medium"

\* a result with a discrepancy of impact 100, which is medium, and one of
\* impact 101, which is high
C12_Witness ==
    /\ Returned
    /\ \E n \in CalculationErrors :
          /\ FracEq(result.discrepancies[n].impact_eur, Frac(100, 1))
          /\ result.discrepancies[n].severity = "medium"
    /\ \E n \in CalculationErrors :
          /\ FracEq(result.discrepancies[n].impact_eur, Frac(101, 1))
          /\ result.discrepancies[n].severity = "high"

\* the positions <<i, k>> of the regular rows with the split flag, a basis
\* and a rate in the matches of the result
SplitRowPositions ==
    {ik \in UNION {{<<i, k>> : k \in DOMAIN result.matches[i].salescookie_transactions} :
                       i \in DOMAIN result.matches} :
        LET tx == transactions[result.matches[ik[1]].salescookie_transactions[ik[2]]]
        IN  /\ tx.transaction_type = "regular"
            /\ tx.has_split
            /\ tx.acv_eur # 0
            /\ tx.commission_rate # 0}

RowAt(ik) == transactions[result.matches[ik[1]].salescookie_transactions[ik[2]]]

\* the number of rows of match i with the basis of the row at ik, of any type
CoMatchedSameBasis(ik) ==
    LET list == result.matches[ik[1]].salescookie_transactions
    IN  Cardinality({j \in DOMAIN list : transactions[list[j]].acv_eur = RowAt(ik).acv_eur})

\* the number of regular rows among them
RegularCoMatchedSameBasis(ik) ==
    LET list == result.matches[ik[1]].salescookie_transactions
    IN  Cardinality({j \in DOMAIN list :
                        /\ transactions[list[j]].acv_eur = RowAt(ik).acv_eur
                        /\ transactions[list[j]].transaction_type = "regular"})

HoldsWithholding(ik) ==
    \E t \in RowsOf(result.matches[ik[1]]) : transactions[t].transaction_type = "withholding"

\* basis times rate divided by the number of co-matched rows of that basis
ExpectedByEveryType(ik) ==
    Frac(RowAt(ik).acv_eur * RowAt(ik).commission_rate, 1000 * CoMatchedSameBasis(ik))

\* basis times rate divided by the number of co-matched regular rows of that
\* basis, and by two in a match that holds a withholding row
ExpectedByRegular(ik) ==
    Frac(RowAt(ik).acv_eur * RowAt(ik).commission_rate,
         1000 * RegularCoMatchedSameBasis(ik) * (IF HoldsWithholding(ik) THEN 2 ELSE 1))

BeyondTolerance(e, p) == FracGreater(FracAbsDiff(e, Frac(p, 1)), 1)

\* the calculation discrepancies of deal ID h for a row with the split flag,
\* with an expected amount equal to e and paid amount p
SplitCalculationErrors(h, e, p) ==
    {n \in CalculationErrors :
        LET x == result.discrepancies[n]
        IN  /\ "split deal" \in x.details
            /\ x.deal_id = h
            /\ x.actual_value = Frac(p, 1)
            /\ FracEq(x.expected_value, e)}

\* C13 as claimed: a regular row with the split flag is validated against
\* basis times rate divided by the number of rows of its basis in the match,
\* of any type: it has a calculation discrepancy with that expected amount
\* exactly when its paid amount is further than 1 from it.
C13_DividedByEveryType ==
    Returned =>
        /\ \A ik \in SplitRowPositions :
               LET h == result.matches[ik[1]].hubspot_id
                   e == ExpectedByEveryType(ik)
                   p == RowAt(ik).commission_amount
               IN  Cardinality(SplitCalculationErrors(h, e, p))
                     = Cardinality({q \in SplitRowPositions :
                            /\ result.matches[q[1]].hubspot_id = h
                            /\ RowAt(q).commission_amount = p
                            /\ FracEq(ExpectedByEveryType(q), e)
                            /\ BeyondTolerance(e, p)})
        /\ \A n \in CalculationErrors :
               "split deal" \in result.discrepancies[n].details =>
                   \E ik \in SplitRowPositions :
                       n \in SplitCalculationErrors(result.matches[ik[1]].hubspot_id,
                                                    ExpectedByEveryType(ik),
                                                    RowAt(ik).commission_amount)

\* C13: a regular row with the split flag is validated against basis times
\* rate divided by the number of regular rows of its basis in the match, and
\* halved in a match that holds a withholding row: it has a calculation
\* discrepancy with that expected amount exactly when its paid amount is
\* further than 1 from it.
C13_DividedByRegular ==
    Returned =>
        /\ \A ik \in SplitRowPositions :
               LET h == result.matches[ik[1]].hubspot_id
                   e == ExpectedByRegular(ik)
                   p == RowAt(ik).commission_amount
               IN  Cardinality(SplitCalculationErrors(h, e, p))
                     = Cardinality({q \in SplitRowPositions :
                            /\ result.matches[q[1]].hubspot_id = h
                            /\ RowAt(q).commission_amount = p
                            /\ FracEq(ExpectedByRegular(q), e)
                            /\ BeyondTolerance(e, p)})
        /\ \A n \in CalculationErrors :
               "split deal" \in result.discrepancies[n].details =>
                   \E ik \in SplitRowPositions :
                       n \in SplitCalculationErrors(result.matches[ik[1]].hubspot_id,
                                                    ExpectedByRegular(ik),
                                                    RowAt(ik).commission_amount)

\* a match of two regular rows with the split flag and the basis 1000 at
\* the rate 0.25: the one paid 125 has no discrepancy, the one paid 150 has
\* one, with the expected amount 125
C13_Witness ==
    /\ Returned
    /\ \E ik \in SplitRowPositions, q \in SplitRowPositions :
          /\ ik[1] = q[1]
          /\ Len(result.matches[ik[1]].salescookie_transactions) = 2
          /\ RowAt(ik).commission_amount = 125
          /\ RowAt(q).commission_amount = 150
          /\ SplitCalculationErrors(result.matches[q[1]].hubspot_id, Frac(125, 1), 150) # {}
          /\ SplitCalculationErrors(result.matches[q[1]].hubspot_id, Frac(125, 1), 125) = {}

\* the deals whose ID is the ID of no match of the result
UnmatchedDeals ==
    {d \in DOMAIN hubspot_deals :
        \A i \in DOMAIN result.matches :
            result.matches[i].hubspot_id # hubspot_deals[d].hubspot_id}

MissingDeals ==
    {n \in DOMAIN result.discrepancies :
        result.discrepancies[n].discrepancy_type = "missing_deal"}

\* the base amount of deal d times the rate its plan has for its inferred
\* category, or the flat rate
PlanImpact(d) ==
    LET hs == hubspot_deals[d]
    IN  IF hs.is_ps_deal THEN Frac(hs.commission_amount * PsFlatRate, 1000)
        ELSE Frac(hs.commission_amount
                    * CommissionRates(hs.close_date.y)[DetermineDealType(hs)], 1000)

\* C14 as claimed: every deal without a match has one missing_deal
\* discrepancy, of severity high and with the base amount times the plan
\* rate of its inferred category as impact; there is no other missing_deal
\* discrepancy.
C14_MissingDealAtPlanRate ==
    Returned =>
        /\ Cardinality(MissingDeals) = Cardinality(UnmatchedDeals)
        /\ \A d \in UnmatchedDeals :
               Cardinality({n \in MissingDeals :
                               /\ result.discrepancies[n].deal_id = hubspot_deals[d].hubspot_id
                               /\ result.discrepancies[n].severity = "high"
                               /\ FracEq(result.discrepancies[n].impact_eur, PlanImpact(d))})
                 = Cardinality({e \in UnmatchedDeals :
                                   /\ hubspot_deals[e].hubspot_id = hubspot_deals[d].hubspot_id
                                   /\ FracEq(PlanImpact(e), PlanImpact(d))})

\* get_commission_rate has returned or raised
RateReturned == call.fn = "get_commission_rate" /\ ret.returned

\* C15: for a year with a plan and a key of its rate table,
\* get_commission_rate without the flat-rate flag returns the rate the table
\* has for the key.
C15_RateOfCategoryKey ==
    (/\ RateReturned
     /\ call.year \in PlanYears
     /\ call.deal_type \in PlanCategories
     /\ ~call.is_ps)
        => /\ ~ret.raised
           /\ ret.rate = CommissionRates(call.year)[call.deal_type]

\* the deal type holds a keyword of DEAL_TYPE_MAPPING, in lower case
HoldsKeyword(deal_type) ==
    \E i \in DOMAIN DEAL_TYPE_MAPPING :
        ContainsAny(Lower(Chars(deal_type)), DEAL_TYPE_MAPPING[i].keywords)

\* C16 as claimed: for a year with a plan, get_commission_rate without the
\* flat-rate flag and with a deal type that is no key of the rate table
\* returns the software rate of the year and does not raise.
C16_UnknownGetsSoftwareRate ==
    (/\ RateReturned
     /\ call.year \in PlanYears
     /\ call.deal_type \notin PlanCategories
     /\ ~call.is_ps)
        => /\ ~ret.raised
           /\ ret.rate = CommissionRates(call.year)["software"]

\* C16: the same of the deal types that are no key of the rate table and
\* hold no keyword of the deal-type mapping.
C16_NoKeywordGetsSoftwareRate ==
    (/\ RateReturned
     /\ call.year \in PlanYears
     /\ call.deal_type \notin PlanCategories
     /\ ~HoldsKeyword(call.deal_type)
     /\ ~call.is_ps)
        => /\ ~ret.raised
           /\ ret.rate = CommissionRates(call.year)["software"]

\* the 2025 rate asked for the deal type 'Sage', which holds no keyword
C16_Witness ==
    /\ RateReturned
    /\ call.year = 2025
    /\ call.deal_type = "Sage"
    /\ ~call.is_ps
    /\ ret.rate = 70

\* C17: get_commission_rate for a year without a plan raises, whatever the
\* deal type and the flat-rate flag.
C17_NoPlanRaises ==
    (RateReturned /\ call.year \notin PlanYears) => ret.raised

\* the flat rate asked for a year without plan, which raised
C17_Witness ==
    /\ RateReturned
    /\ call.year = 2026
    /\ call.is_ps
    /\ ret.raised

\* the withholding rows of the input, by position
WithholdingPositions ==
    SelectSeq([t \in 1..Len(transactions) |-> t],
              LAMBDA t : transactions[t].transaction_type = "withholding")

PaidOf(t) == transactions[t].commission_amount

\* the full amount of row t, a zero one taken as twice the paid amount
FullOrTwicePaid(t) ==
    IF transactions[t].est_commission = 0 THEN 2 * PaidOf(t)
    ELSE transactions[t].est_commission

\* C18: the withholding summary holds the sum of the paid
\* amounts, the sum of full less paid amount and the sum of the full amounts
\* of the withholding rows, a zero full amount taken as twice the paid one.
C18_SummaryOfFullAmounts ==
    Returned =>
        LET s == result.summary.withholding_summary
            whs == WithholdingPositions
        IN  /\ s.total_paid = SeqSum([k \in DOMAIN whs |-> PaidOf(whs[k])])
            /\ s.total_withheld
                 = SeqSum([k \in DOMAIN whs |-> FullOrTwicePaid(whs[k]) - PaidOf(whs[k])])
            /\ s.total_full_commission
                 = SeqSum([k \in DOMAIN whs |-> FullOrTwicePaid(whs[k])])

KickerReturned == call.fn = "_get_applicable_kicker" /\ ret.returned

\* the thresholds of the year's plan that a quarterly total of total_acv
\* meets: total_acv is at least pct hundredths of a quarter of the quota
ThresholdsMet(year, total_acv) ==
    {k \in OverperformanceKickers(year) : total_acv * 400 >= k[1] * QuotaTarget(year)}

\* the multiplier of the highest threshold met, 1.0 if none is met; the
\* earlybird multiplier in the first quarter of a year whose plan has one
PlanMultiplier(quarter, total_acv) ==
    LET year == quarter[2]
        met == ThresholdsMet(year, total_acv)
    IN  IF quarter[1] = 1 /\ EarlybirdKicker(year) # {}
        THEN CHOOSE b \in EarlybirdKicker(year) : TRUE
        ELSE IF met = {} THEN 100
        ELSE (CHOOSE k \in met : \A j \in met : j[1] <= k[1])[2]

\* C19: for a quarter of a year with a plan, the kicker multiplier is the
\* one the plan has for the highest threshold the achievement meets, 1.0 if
\* it meets none, and the earlybird multiplier in the first quarter of a
\* plan that has one.
C19_MultiplierOfHighestThreshold ==
    (KickerReturned /\ call.quarter[2] \in PlanYears)
        => ret.multiplier = PlanMultiplier(call.quarter, call.total_acv)

SplitReturned == call.fn = "calculate_split_quarters" /\ ret.returned

\* the calendar quarter of a date and its year
QuarterAndYear(dt) == <<((dt.m - 1) \div 3) + 1, dt.y>>

RECURSIVE SumOn(_, _)
\* the sum of the values f has on S
SumOn(f, S) ==
    IF S = {} THEN 0
    ELSE LET x == CHOOSE x \in S : TRUE IN f[x] + SumOn(f, S \ {x})

QualityReturned == call.fn = "assess_data_quality" /\ ret.returned

\* the name ends in a truncation marker: the ellipsis character, or the
\* three dots of the names of the scraped fixture of the tests
EndsInTruncationMarker(name) ==
    \/ EndsWith(Chars(FillNa(name)), Chars("[U+2026]"))
    \/ EndsWith(Chars(FillNa(name)), <<".", ".", ".">>)

\* the rows of the frame without an ID
RowsMissingId(df) ==
    {i \in DOMAIN df.rows : "Unique ID" \notin df.columns \/ df.rows[i]["Unique ID"] = NoValue}

\* the rows of the frame with a truncated name
RowsWithTruncatedName(df) ==
    {i \in DOMAIN df.rows :
        "Deal Name" \in df.columns /\ EndsInTruncationMarker(df.rows[i]["Deal Name"])}

\* the ID, the name and the critical fields that are no column of the frame
AbsentFields(df) == QualityColumns \ df.columns

\* 100 - 30 x fraction of rows without ID - 20 x fraction of rows with a
\* truncated name - 10 x number of absent fields, not below 0
ScoreOfFractions(df) ==
    LET total == Len(df.rows)
        num == 100 * total - 30 * Cardinality(RowsMissingId(df))
                   - 20 * Cardinality(RowsWithTruncatedName(df))
                   - 10 * Cardinality(AbsentFields(df)) * total
    IN  IF num < 0 THEN Frac(0, 1) ELSE Frac(num, total)

\* C21: for a frame with rows, the quality score is 100 less 30 times the
\* fraction of rows without an ID, 20 times the fraction of rows with a
\* truncated name and 10 for every field that is no column of the frame,
\* and not below 0; a field that is a column costs nothing, whatever cells of
\* it are empty.
C21_ScoreOfFractions ==
    (QualityReturned /\ Len(call.df.rows) > 0)
        => FracEq(ret.report.quality_score, ScoreOfFractions(call.df))

DetectReturned == call.fn = "detect_data_source" /\ ret.returned

\* C22: a frame with rows that has neither marker column of the manual
\* export and has the three key columns and the name column is taken as
\* manual when fewer than one in ten of its names end in a truncation
\* marker, and as scraped otherwise.
C22_ManualBelowTenPercent ==
    (/\ DetectReturned
     /\ call.df.columns \cap {"Commission Currency", "Is Closed Won"} = {}
     /\ {"Commission", "Commission Rate", "Unique ID", "Deal Name"} \subseteq call.df.columns
     /\ Len(call.df.rows) > 0)
        => ret.source = IF Cardinality(RowsWithTruncatedName(call.df)) * 10 < Len(call.df.rows)
                        THEN "manual" ELSE "scraped"

\* the matches of the result that the company+date stage made
CompanyDateMatches ==
    {i \in DOMAIN result.matches : result.matches[i].match_type = "company_date"}

\* the deal and the one row of a company+date match
DealOf(m) == hubspot_deals[m.hubspot_deal]

RowOf(m) == transactions[m.salescookie_transactions[1]]

\* the close dates are a whole number of days apart, and that number
WholeDaysApart(hs, sc) == hs.close_date.h = sc.close_date.h

DaysApart(hs, sc) == Abs(Ordinal(hs.close_date) - Ordinal(sc.close_date))

\* the row's basis is within 1% of the deal's amount
WithinOnePercent(hs, sc) ==
    100 * Abs(sc.acv_eur - hs.commission_amount) <= hs.commission_amount

\* the row's basis is positive and less than a tenth of itself away from the
\* deal's amount
WithinTenPercent(hs, sc) ==
    sc.acv_eur > 0 /\ 10 * Abs(hs.commission_amount - sc.acv_eur) < sc.acv_eur

\* C23 as claimed: a company+date match of a deal and a row that close d
\* days apart has confidence 80 - 5d, plus 10 exactly when the row's basis
\* is within 1% of the deal's amount, and is below 95.
C23_BonusWithinOnePercent ==
    Returned =>
        \A i \in CompanyDateMatches :
            LET m == result.matches[i]
                hs == DealOf(m)
                sc == RowOf(m)
            IN  WholeDaysApart(hs, sc) =>
                    /\ DaysApart(hs, sc) \in 0..7
                    /\ m.confidence = 80 - 5 * DaysApart(hs, sc)
                           + (IF WithinOnePercent(hs, sc) THEN 10 ELSE 0)
                    /\ m.confidence < 95

\* C23: a company+date match of a deal and a row that close d days apart has
\* confidence 80 - 5d, plus 10 exactly when the row's basis is positive and
\* differs from the deal's amount by less than 10% of the basis, and is below
\* 95.
C23_BonusWithinTenPercent ==
    Returned =>
        \A i \in CompanyDateMatches :
            LET m == result.matches[i]
                hs == DealOf(m)
                sc == RowOf(m)
            IN  WholeDaysApart(hs, sc) =>
                    /\ DaysApart(hs, sc) \in 0..7
                    /\ m.confidence = 80 - 5 * DaysApart(hs, sc)
                           + (IF WithinTenPercent(hs, sc) THEN 10 ELSE 0)
                    /\ m.confidence < 95

\* a company+date match of a deal and a row seven days apart whose basis is
\* 5% below the deal's amount, next to one made on the same day with a basis
\* a tenth of itself away
C23_Witness ==
    /\ Returned
    /\ \E i, j \in CompanyDateMatches :
          LET m == result.matches[i]
              n == result.matches[j]
          IN  /\ WholeDaysApart(DealOf(m), RowOf(m))
              /\ DaysApart(DealOf(m), RowOf(m)) = 7
              /\ RowOf(m).acv_eur = 950
              /\ m.confidence = 55
              /\ WholeDaysApart(DealOf(n), RowOf(n))
              /\ DaysApart(DealOf(n), RowOf(n)) = 0
              /\ DealOf(n).commission_amount = 1100
              /\ RowOf(n).acv_eur = 1000
              /\ n.confidence = 80

\* the IDs of the rows in the matches made before match i
IdsClaimedBefore(i) ==
    {transactions[t].salescookie_id :
        t \in UNION {RowsOf(result.matches[j]) : j \in 1..(i - 1)}}

\* the rows of the pool that qualified for the deal of company+date match i
\* when it was made: their ID unclaimed, their company the deal's, their
\* close date within seven days of the deal's
QualifiedFor(i) ==
    LET hs == DealOf(result.matches[i])
    IN  {t \in Range(regular_transactions) :
            LET sc == transactions[t]
            IN  /\ sc.salescookie_id \notin IdsClaimedBefore(i)
                /\ NormalizeCompany(sc.company_name) = NormalizeCompany(hs.company)
                /\ DatesMatch(hs.close_date, sc.close_date, 7)}

\* C24: the row of a company+date match is, of the unclaimed rows that
\* qualified for the deal, one of the highest confidence and the earliest of
\* these in input order; reconcile raises no error.
C24_HighestThenEarliest ==
    /\ pc # "raised"
    /\ Returned =>
          \A i \in CompanyDateMatches :
              LET m == result.matches[i]
                  hs == DealOf(m)
                  t == m.salescookie_transactions[1]
              IN  /\ t \in QualifiedFor(i)
                  /\ m.confidence = CompanyDateConfidence(hs, transactions[t])
                  /\ \A u \in QualifiedFor(i) :
                        LET other == CompanyDateConfidence(hs, transactions[u])
                        IN  /\ other <= m.confidence
                            /\ other = m.confidence => t <= u

\* a company+date match made of the first of two rows of equal confidence
C24_Witness ==
    /\ Returned
    /\ \E i \in CompanyDateMatches :
          LET m == result.matches[i]
          IN  /\ m.salescookie_transactions = <<1>>
              /\ QualifiedFor(i) = {1, 2}
              /\ transactions[1] # transactions[2]
              /\ CompanyDateConfidence(DealOf(m), transactions[2]) = m.confidence

\* the stages in the order the claim gives them, and what runs after them
StageOrder ==
    <<"match_by_id", "match_by_name_and_date", "match_by_company_and_date",
      "match_withholdings", "match_splits", "validate_matches">>

\* s is a prefix of t
IsPrefix(s, t) == Len(s) <= Len(t) /\ SubSeq(t, 1, Len(s)) = s

\* the rows in the matches of ms
ClaimedRows(ms) == UNION {RowsOf(ms[i]) : i \in DOMAIN ms}

\* one step of the first reconcile: a stage is followed by the next one of
\* the order; every match there is stays where it is with its deal, strategy
\* and confidence, and its rows stay the first of its list; a row added to
\* it was in no match before; a match that is new is of a deal that had
\* none and of rows that were in none
KeepsEarlierMatches ==
    /\ \A k \in 1..(Len(StageOrder) - 1) :
          pc = StageOrder[k] => pc' = StageOrder[k + 1]
    /\ Len(matches') >= Len(matches)
    /\ \A i \in DOMAIN matches :
          /\ matches'[i].hubspot_deal = matches[i].hubspot_deal
          /\ matches'[i].hubspot_id = matches[i].hubspot_id
          /\ matches'[i].match_type = matches[i].match_type
          /\ matches'[i].confidence = matches[i].confidence
          /\ IsPrefix(matches[i].salescookie_transactions,
                      matches'[i].salescookie_transactions)
          /\ \A k \in (Len(matches[i].salescookie_transactions) + 1)
                          ..Len(matches'[i].salescookie_transactions) :
                matches'[i].salescookie_transactions[k] \notin ClaimedRows(matches)
    /\ \A j \in (Len(matches) + 1)..Len(matches') :
          /\ \A i \in DOMAIN matches :
                matches'[j].hubspot_deal # matches[i].hubspot_deal
          /\ RowsOf(matches'[j]) \cap ClaimedRows(matches) = {}
    /\ pc' = "returned" => result'.matches = matches

\* C25: the stages run in the order exact ID, name+date, company+date,
\* withholding, split; a match keeps its deal, strategy and confidence to the
\* result, a later stage only appends rows to it or makes matches for deals
\* that have none, and takes no row a match already holds.
C25_StagesKeepEarlierMatches == [][KeepsEarlierMatches]_vars

\* the split stage has run: a match made by ID holds the withholding row
\* the withholding stage appended, and the split stage made a match for a
\* deal that had none
C25_Witness ==
    /\ pc = "validate_matches"
    /\ \E i, j \in DOMAIN matches :
          /\ matches[i].match_type = "id"
          /\ Len(matches[i].salescookie_transactions) = 2
          /\ transactions[matches[i].salescookie_transactions[2]].transaction_type
                 = "withholding"
          /\ matches[j].match_type \in {"id_match", "name_date_match"}
          /\ matches[j].hubspot_deal # matches[i].hubspot_deal

\* the positions <<i, k>> the withholding stage appends at: k is a new
\* position of the list of match i, the first of the matches that hold that
\* list
WithholdingAppends ==
    UNION {{<<i, k>> : k \in (Len(matches[i].salescookie_transactions) + 1)
                                 ..Len(matches'[i].salescookie_transactions)} :
              i \in {i \in DOMAIN matches :
                        \A j \in 1..(i - 1) : matches[j].list_id # matches[i].list_id}}

\* twice the paid amount of the regular row match i holds already
TwicePaidOfRegular(i) ==
    LET list == matches[i].salescookie_transactions
        first == Min({k \in DOMAIN list :
                         transactions[list[k]].transaction_type = "regular"})
    IN  2 * transactions[list[first]].commission_amount

FullAmountAppended(ik) ==
    transactions[matches'[ik[1]].salescookie_transactions[ik[2]]].est_commission

\* more than 0.01 apart
ApartBeyondACent(a, b) == 100 * Abs(a - b) > 1

MismatchedAppends ==
    {ik \in WithholdingAppends :
        ApartBeyondACent(TwicePaidOfRegular(ik[1]), FullAmountAppended(ik))}

\* the discrepancies the step appends
NewDiscrepancies ==
    (Len(discrepancies) + 1)..Len(discrepancies')

\* the withholding stage emits one withholding_mismatch for every row it
\* appends whose full amount is more than 0.01 away from twice the paid
\* amount of the match's regular row, carrying the two amounts, and nothing
\* else
EmitsMismatchPerAppend ==
    pc = "match_withholdings" =>
        /\ SubSeq(discrepancies', 1, Len(discrepancies)) = discrepancies
        /\ \A n \in NewDiscrepancies :
              discrepancies'[n].discrepancy_type = "withholding_mismatch"
        /\ \A ik \in MismatchedAppends :
              LET same == {jl \in MismatchedAppends :
                              /\ TwicePaidOfRegular(jl[1]) = TwicePaidOfRegular(ik[1])
                              /\ FullAmountAppended(jl) = FullAmountAppended(ik)}
                  emitted == {n \in NewDiscrepancies :
                                 /\ discrepancies'[n].expected_value
                                        = Frac(TwicePaidOfRegular(ik[1]), 1)
                                 /\ discrepancies'[n].actual_value
                                        = Frac(FullAmountAppended(ik), 1)}
              IN  Cardinality(emitted) = Cardinality(same)
        /\ Cardinality(NewDiscrepancies) = Cardinality(MismatchedAppends)

\* C26: whenever the withholding stage appends a withholding row to a match
\* it emits a withholding_mismatch discrepancy exactly when twice the paid
\* amount of the match's regular row and the full amount of the withholding
\* row are more than 0.01 apart.
C26_MismatchPerAppend == [][EmitsMismatchPerAppend]_vars

\* the withholding stage has appended a withholding row whose full amount
\* is a unit above twice the regular row's paid amount, and has emitted the
\* discrepancy
C26_Witness ==
    /\ pc = "match_splits"
    /\ \E i \in DOMAIN matches :
          LET list == matches[i].salescookie_transactions
          IN  /\ Len(list) = 2
              /\ transactions[list[1]].commission_amount = 250
              /\ transactions[list[2]].transaction_type = "withholding"
              /\ transactions[list[2]].est_commission = 501
    /\ Len(discrepancies) = 1
    /\ discrepancies[1].discrepancy_type = "withholding_mismatch"

\* the matches of the result that the split stage made
SplitMadeMatches ==
    {j \in DOMAIN result.matches :
        result.matches[j].match_type \in {"id_match", "name_date_match"}}

\* the deals with the ID of row t that had no match when match j was made
UnclaimedWithIdOf(t, j) ==
    {d \in DOMAIN hubspot_deals :
        /\ hubspot_deals[d].hubspot_id = transactions[t].salescookie_id
        /\ \A i \in 1..(j - 1) :
              result.matches[i].hubspot_id # hubspot_deals[d].hubspot_id}

\* the split rows that are in no match of the result
SplitRowsLeft ==
    {t \in Range(split_transactions) :
        \A i \in DOMAIN result.matches : t \notin RowsOf(result.matches[i])}

\* C27: a split row that is appended to no match and has the ID of a deal
\* without match makes a match with such a deal at confidence 100; a match
\* by name and date at confidence 85 is made only when no deal without
\* match has the row's ID.
C27_IdBeforeNameAndDate ==
    Returned =>
        /\ \A j \in SplitMadeMatches :
              LET m == result.matches[j]
                  t == m.salescookie_transactions[1]
              IN  IF UnclaimedWithIdOf(t, j) # {}
                  THEN /\ m.match_type = "id_match"
                       /\ m.confidence = 100
                       /\ m.hubspot_deal \in UnclaimedWithIdOf(t, j)
                  ELSE /\ m.match_type = "name_date_match"
                       /\ m.confidence = 85
        /\ \A t \in SplitRowsLeft :
              UnclaimedWithIdOf(t, Len(result.matches) + 1) = {}

\* C28: the second reconcile on one engine returns the matches and the
\* discrepancies the first call returned.
C28_SecondCallSameOutcome ==
    (pc \in {"returned", "raised"} /\ runs = [engines |-> 1, calls |-> 2])
        => Outcome(result) = Outcome(first_result)

DatesMatchReturned == call.fn = "_dates_match" /\ ret.returned

\* C29: whether two close dates that carry a time of day are within the
\* tolerance does not depend on which of the two is the earlier one: the
\* test of the dates in one order gives what it gives in the other order.
C29_ToleranceSymmetric ==
    DatesMatchReturned =>
        ret.value = DatesMatch(call.date2, call.date1, call.tolerance_days)

\* C30: the summary's count of all transactions is the number of
\* transactions the engine was given, whatever their categories and however
\* many of them are centrally managed.
C30_TotalCountsEveryTransaction ==
    Returned =>
        result.summary.salescookie_total_transactions = Len(transactions)

====
